---- MODULE Spec2Model ----
(***************************************************************************)
(* Reference-first retrieval tools of openclaw: memory_search_refs,        *)
(* memory_expand, rlm_search_refs, rlm_get and rlm_expand, with the        *)
(* rlm-augment post hook.  A state is the record of the last tool call:    *)
(* its arguments, the environment it met, what it did (I/O) and what it    *)
(* returned.  Every action is one whole execute() call.                    *)
(*                                                                         *)
(* A string is a sequence of characters; a character is a TLA+ string      *)
(* naming one UTF-16 code unit ("ELLIPSIS" is U+2026, "REPL" is U+FFFD,    *)
(* "HI"/"LO" are the two surrogates of the magnifying-glass emoji).        *)
(* An optional value is << >> (undefined) or <<v>>.                        *)
(***************************************************************************)
EXTENDS Integers, Sequences, FiniteSets, TLC

VARIABLES
    op,          \* tool operation of the last call ("idle" before any call)
    outcome,     \* "none", "returned" (a structured result) or "threw"
    disabled,    \* the result carries disabled: true
    hasError,    \* the result carries an error string
    refsOut,     \* result.refs of a search call
    resultsOut,  \* result.results of an expand / get call
    inRefs,      \* the refs argument of an expand call
    inMaxRefs,   \* the maxRefs argument (optional)
    inMaxChars,  \* the maxChars argument (optional)
    inPreview,   \* the previewChars argument (optional)
    ownRefs,     \* refs the search tool computed itself (hook context.refs)
    rawTexts,    \* text read from the file for each window of ownWindows
    ownWindows,  \* windows the expand tool computed itself (context.expanded)
    hookSet,     \* a post hook handler set augmentedRefs / augmentedExpanded
    hookValue,   \* context.augmentedRefs / augmentedExpanded after the hook chain
    ioLog,       \* I/O performed by the call: set of events
    failures,    \* indexes (in inRefs) of the refs whose read failed
    unavailable, \* the capability was unavailable (no manager, disabled by config)
    opFailed,    \* an error occurred inside the operation
    readLog,     \* windows read from files: [from, lines, fileLines] per read
    inRecursive, \* the recursive argument of a memory_search_refs call (optional)
    searchEnv,   \* what a memory_search_refs call met: [hits, henv] (optional)
    \* --- the rlm-index-refresh hook (module state and the clock) ---
    now,         \* Date.now(), in milliseconds
    pending,     \* Map agentId -> timer: [due, active] (active: set, not yet fired)
    lastRun,     \* Map agentId -> time of the last successful refresh
    runs,        \* refreshes in progress: set of [agent, start]
    lastEventAt, \* Map agentId -> time of its latest transcript-update event
    uncovered,   \* Map agentId -> an event arrived and no refresh started since
    lastStart,   \* Map agentId -> its latest refresh start: [at, event, prevDone]
    lastEnd,     \* Map agentId -> how its latest refresh ended: [ok, at]
    \* --- the index maintainer (updateIndex) and a reader of the index ---
    sessionLen,  \* number of lines of the session transcript (append-only)
    fsPaths,     \* directory: path -> inode
    fsInodes,    \* inode -> file content: [complete, idx]
    lockHolder,  \* set of updaters holding the exclusive file lock
    upd,         \* per updater: position in updateIndex and its in-memory index
    rets,        \* what the latest completed updateIndex returned: Map caller -> return
    readerFd,    \* inode the reader has open (optional)
    observed,    \* what the reader last read: [file, midUpdate]
    committed,   \* every index ever renamed over the index file, and the first
    totalAdded,  \* sum of messagesAdded over the completed updateIndex calls
    \* --- child processes: the last exec / execFile call of the program ---
    execSite,    \* the call site ("none" before any call)
    execOpts,    \* the options it passed: [timeout, maxBuffer], each optional
    execChild,   \* what the child did: [runs, stdout] (stdout in bytes)
    execResult,  \* what the caller got: "none", "returned", "error" or "hung"
    \* --- the transcript search (temporal_search): the last query ---
    searchPath,  \* "none" before a query, then "index" or "fallback"
    searchIn,    \* the query and the world it met: [query, sessions, maxResults, kc]
    searchOut,   \* [results, fallback]: what the pipeline returned, what a full scan returns
    \* --- the evaluation harness (test-memory-refs-report.ts) ---
    outFile,     \* the file at the output path: [exists, complete, report]
    proc,        \* the running harness: args, report, position in main, sweep loop
    runLog,      \* invocations so far, how the previous one ended, what this one loaded
    \* --- transcript-update events (sessions/transcript-events.ts) ---
    listeners,   \* SESSION_TRANSCRIPT_LISTENERS, in insertion order
    emitLog      \* the latest emitSessionTranscriptUpdate call and what it did

toolVars == <<op, outcome, disabled, hasError, refsOut, resultsOut, inRefs, inMaxRefs,
              inMaxChars, inPreview, ownRefs, rawTexts, ownWindows, hookSet, ioLog,
              failures, unavailable, opFailed, readLog, hookValue, inRecursive,
              searchEnv>>

refreshVars == <<now, pending, lastRun, runs, lastEventAt, uncovered, lastStart, lastEnd>>

indexVars == <<sessionLen, fsPaths, fsInodes, lockHolder, upd, rets, readerFd,
               observed, committed, totalAdded>>

execVars == <<execSite, execOpts, execChild, execResult>>

searchVars == <<searchPath, searchIn, searchOut>>

harnessVars == <<outFile, proc, runLog>>

emitVars == <<listeners, emitLog>>

nonToolVars == <<refreshVars, indexVars, execVars, searchVars, harnessVars, emitVars>>
nonRefreshVars == <<toolVars, indexVars, execVars, searchVars, harnessVars, emitVars>>
nonIndexVars == <<toolVars, refreshVars, execVars, searchVars, harnessVars, emitVars>>
nonExecVars == <<toolVars, refreshVars, indexVars, searchVars, harnessVars, emitVars>>
nonSearchVars == <<toolVars, refreshVars, indexVars, execVars, harnessVars, emitVars>>

nonHarnessVars == <<toolVars, refreshVars, indexVars, execVars, searchVars, emitVars>>

nonEmitVars == <<toolVars, refreshVars, indexVars, execVars, searchVars, harnessVars>>

vars == <<toolVars, refreshVars, indexVars, execVars, searchVars, harnessVars, emitVars>>

----------------------------------------------------------------------------
(* Bounds of the model *)

MaxPreviewIn == 4
MaxCharsIn == 4
MaxRefsIn == 2
MaxPathLen == 4

----------------------------------------------------------------------------
(* The rlm-index-refresh hook: timing constants and initial module state.   *)
(* Times are milliseconds.                                                  *)

DEBOUNCE_MS == 60000
COOLDOWN_MS == 5 * 60000
\* timeout of the exec call in refreshIndex
REFRESH_TIMEOUT_MS == 30000

\* Date.now() when the process starts: any real clock value is far above
\* COOLDOWN_MS, so that "now - 0 < COOLDOWN_MS" is false before any refresh
StartTime == COOLDOWN_MS

\* The index maintainer: the number of lines a session transcript grows to,
\* the processes that call updateIndex, and the files it works on
MaxSessionLines == 2
Updaters == {"u1", "u2"}
IndexPath == "inverted-index.json"
TempPath == "inverted-index.json.tmp"

\* An index over one session: sessions[s].lastIndexedLine, the tokens whose
\* posting list holds s, and how many times each line was added (Map line -> n)
EmptyIndex == [lastIndexedLine |-> 0, tokens |-> {}, times |-> << >>]

\* A file content: an index serialised in full, or only a part of it
WholeFile(idx) == [complete |-> TRUE, idx |-> idx]
PartOfFile(idx) == [complete |-> FALSE, idx |-> idx]

IdleUpdater ==
    [pc |-> "idle", before |-> EmptyIndex, mem |-> EmptyIndex, eof |-> 0,
     messagesAdded |-> 0, waited |-> FALSE]

\* Phase 1 has built the index file; no updateIndex call is in progress
IndexVarsInit ==
    /\ sessionLen = 0
    /\ fsPaths = [p \in {IndexPath} |-> "ino-index"]
    /\ fsInodes = [i \in {"ino-index"} |-> WholeFile(EmptyIndex)]
    /\ lockHolder = {}
    /\ upd = [u \in Updaters |-> IdleUpdater]
    /\ rets = << >>
    /\ readerFd = << >>
    /\ observed = [file |-> WholeFile(EmptyIndex), midUpdate |-> FALSE]
    /\ committed = {EmptyIndex}
    /\ totalAdded = 0

\* No child process has been started
ExecVarsInit ==
    /\ execSite = "none"
    /\ execOpts = [timeout |-> << >>, maxBuffer |-> << >>]
    /\ execChild = [runs |-> "exits", stdout |-> 0]
    /\ execResult = "none"

\* No query has been run
SearchVarsInit ==
    /\ searchPath = "none"
    /\ searchIn = << >>
    /\ searchOut = << >>

\* const SESSION_TRANSCRIPT_LISTENERS = new Set(); nothing emitted yet
EmitVarsInit ==
    /\ listeners = << >>
    /\ emitLog = [called |-> FALSE, sessionFile |-> << >>, registered |-> << >>,
                  invoked |-> << >>, hookEvents |-> << >>, threw |-> FALSE]

\* The report a run without --resume starts from: suites: [], sweep: null
NewReport == [suites |-> << >>, best |-> << >>]

NoProcess ==
    [pc |-> "none", ckpt |-> "none", args |-> << >>, report |-> NewReport,
     cell |-> 1, configsRun |-> 0, candidates |-> << >>]

\* No harness has run; the output path does not exist
HarnessVarsInit ==
    /\ outFile = [exists |-> FALSE, complete |-> FALSE, report |-> NewReport]
    /\ proc = NoProcess
    /\ runLog = [runs |-> 0, prev |-> "none", loaded |-> 0, caseThrew |-> << >>]

\* const pending = new Map(); const lastRun = new Map();
RefreshVarsInit ==
    /\ now = StartTime
    /\ pending = << >>
    /\ lastRun = << >>
    /\ runs = {}
    /\ lastEventAt = << >>
    /\ uncovered = << >>
    /\ lastStart = << >>
    /\ lastEnd = << >>

----------------------------------------------------------------------------
(* Optional values and numbers *)

None == << >>
Some(v) == <<v>>
IsSome(o) == o # << >>
\* JavaScript's  o ?? d
OrElse(o, d) == IF o = << >> THEN d ELSE o[1]

Max(a, b) == IF a >= b THEN a ELSE b
Min(a, b) == IF a <= b THEN a ELSE b

----------------------------------------------------------------------------
(* Strings *)

WhiteSpace == {" ", "\n", "\t"}

\* String.prototype.slice(start, end) on a sequence of characters
JsSlice(s, start, end) ==
    LET n == Len(s)
        a == IF start < 0 THEN Max(n + start, 0) ELSE Min(start, n)
        b == IF end < 0 THEN Max(n + end, 0) ELSE Min(end, n)
    IN  IF b <= a THEN << >> ELSE SubSeq(s, a + 1, b)

RECURSIVE TrimStart(_)
TrimStart(s) ==
    IF s # << >> /\ Head(s) \in WhiteSpace THEN TrimStart(Tail(s)) ELSE s

RECURSIVE TrimEnd(_)
TrimEnd(s) ==
    IF s # << >> /\ s[Len(s)] \in WhiteSpace
    THEN TrimEnd(SubSeq(s, 1, Len(s) - 1))
    ELSE s

Trim(s) == TrimEnd(TrimStart(s))

\* s.replace(/\s+/g, " ")
RECURSIVE CollapseWs(_)
CollapseWs(s) ==
    IF s = << >> THEN << >>
    ELSE IF Head(s) \in WhiteSpace
         THEN <<" ">> \o CollapseWs(TrimStart(s))
         ELSE <<Head(s)>> \o CollapseWs(Tail(s))

LowerChar(c) == IF c = "A" THEN "a" ELSE IF c = "B" THEN "b" ELSE c
ToLower(s) == [i \in 1..Len(s) |-> LowerChar(s[i])]

\* hay.includes(needle)
Includes(hay, needle) ==
    \E i \in 0..(Len(hay) - Len(needle)) :
        SubSeq(hay, i + 1, i + Len(needle)) = needle

StartsWith(s, p) == Len(s) >= Len(p) /\ SubSeq(s, 1, Len(p)) = p
EndsWith(s, p) == Len(s) >= Len(p) /\ SubSeq(s, Len(s) - Len(p) + 1, Len(s)) = p

\* lines.join("\n")
RECURSIVE JoinLines(_)
JoinLines(ls) ==
    IF ls = << >> THEN << >>
    ELSE IF Len(ls) = 1 THEN ls[1]
    ELSE ls[1] \o <<"\n">> \o JoinLines(Tail(ls))

Repeat(c, n) == [i \in 1..n |-> c]

\* all sequences over S of length at most n
SeqsUpTo(S, n) == UNION {[1..k -> S] : k \in 0..n}

----------------------------------------------------------------------------
(* Previews and refs: memory_search_refs *)

\* The suffix literal of makePreview in memory-tool.refs.ts: three code units
\* (U+00E2, U+20AC, U+00A6)
RefsEllipsis == <<"ACIRC", "EURO", "BRVBAR">>

\* The suffix literal of the other makePreview functions: U+2026
Ellipsis == <<"ELLIPSIS">>

\* The body shared by every makePreview: collapse whitespace, trim, cut
PreviewWith(snippet, previewChars, suffix) ==
    LET s == Trim(CollapseWs(snippet))
    IN  IF Len(s) <= previewChars THEN s
        ELSE TrimEnd(JsSlice(s, 0, previewChars)) \o suffix

\* makePreview of memory-tool.refs.ts
makePreview(snippet, previewChars) == PreviewWith(snippet, previewChars, RefsEllipsis)

\* makePreview of rlm-search-tool.ts
rlmMakePreview(snippet, previewChars) == PreviewWith(snippet, previewChars, Ellipsis)

\* makePreview of the rlm-augment hook
hookMakePreview(snippet, previewChars) == PreviewWith(snippet, previewChars, Ellipsis)

toRefs(results, previewChars) ==
    [i \in 1..Len(results) |->
        [path |-> results[i].path,
         startLine |-> results[i].startLine,
         endLine |-> results[i].endLine,
         score |-> results[i].score,
         source |-> results[i].source,
         preview |-> makePreview(results[i].snippet, previewChars)]]

DefaultPreviewChars == 140

\* Snippets the semantic searcher may return
Blob40 == Repeat("A", 40)
SnippetPool ==
    { <<"a", "b">>,
      <<" ", "a", "\n", "\t", "b", "c", "d", "e">>,
      <<"a", "b", " ", "c", "d">>,
      <<"REPL", "x">>,
      Blob40 }

\* Hits of manager.search: line ranges are 1-based and ordered
SearchHits ==
    { [path |-> "memory/notes.md", startLine |-> 1, endLine |-> 3,
       score |-> 900, source |-> "memory", snippet |-> sn] : sn \in SnippetPool }

SearchResultLists == SeqsUpTo(SearchHits, MaxRefsIn)

PreviewInputs == {None} \cup {Some(n) : n \in (-1)..MaxPreviewIn}

----------------------------------------------------------------------------
(* The rlm-augment post hook *)

HookPreviewChars == 140

TranscriptPath(date) == "memory/transcripts/" \o date \o ".md"

\* What parseRLMOutput yields: each result has a date and a non-empty snippet
\* made of the non-blank output lines, each followed by "\n"
RlmTextResults ==
    { [date |-> "2026-01-31", snippet |-> <<"a", "b", "\n">>, score |-> None],
      [date |-> "2026-02-01", snippet |-> <<"x", "y", " ", "z", "w", "v", "\n">>,
       score |-> Some(700)] }

RlmTextResultLists == SeqsUpTo(RlmTextResults, MaxRefsIn)

\* for (const existing of previews) {...}: preview duplicates one already kept
IsDuplicatePreview(previewLower, previews) ==
    \E existing \in previews :
        \/ Includes(previewLower, JsSlice(existing, 0, 40))
        \/ Includes(existing, JsSlice(previewLower, 0, 40))

RECURSIVE mergeRefsLoop(_, _, _, _)
mergeRefsLoop(merged, previews, rlmResults, previewChars) ==
    IF rlmResults = << >> THEN merged
    ELSE LET rlm == Head(rlmResults)
             preview == hookMakePreview(rlm.snippet, previewChars)
             previewLower == ToLower(preview)
         IN  IF IsDuplicatePreview(previewLower, previews)
             THEN mergeRefsLoop(merged, previews, Tail(rlmResults), previewChars)
             ELSE mergeRefsLoop(
                    Append(merged,
                           [path |-> TranscriptPath(rlm.date),
                            startLine |-> 0,
                            endLine |-> 0,
                            score |-> OrElse(rlm.score, 500),
                            source |-> "sessions",
                            preview |-> preview]),
                    previews \cup {previewLower},
                    Tail(rlmResults), previewChars)

mergeRefs(semanticRefs, rlmResults, previewChars) ==
    mergeRefsLoop(semanticRefs,
                  {ToLower(semanticRefs[i].preview) : i \in 1..Len(semanticRefs)},
                  rlmResults, previewChars)

\* Environment of the hook chain: the handler is not registered, the skill
\* script is missing, the child process fails, or it prints results
HookEnvs ==
    { [kind |-> k, rlm |-> << >>] : k \in {"absent", "no_script", "exec_fails"} }
    \cup { [kind |-> "ok", rlm |-> l] : l \in RlmTextResultLists }

\* augmentMemorySearch for memory_search_refs:post: the value it leaves in
\* context.augmentedRefs (None when it sets nothing)
augmentMemorySearch(refs, henv) ==
    IF henv.kind = "ok"
    THEN Some(mergeRefs(refs, henv.rlm, HookPreviewChars))
    ELSE None

----------------------------------------------------------------------------
(* memory_search_refs *)

\* Mutant: the value a handler set is ignored
HookResultIgnored(augmented, own) == own

\* augmentedRefs ?? refs, augmented ?? expanded: what the tool returns after
\* the post hook chain (a handler "sets" the field by giving it a value other
\* than null / undefined)
HookResult(augmented, own) == OrElse(augmented, own)

QueryInputs == {None, Some("q")}

\* readStringParam(params, key, {required: true}) returns normally only when
\* the parameter is present
readStringParamReturns(value) == IsSome(value)

\* The call threw before reaching its try block
Threw(name, maxRefs, maxChars, preview, refs) ==
    /\ op' = name
    /\ outcome' = "threw"
    /\ disabled' = FALSE
    /\ hasError' = FALSE
    /\ refsOut' = << >>
    /\ resultsOut' = << >>
    /\ inRefs' = refs
    /\ inMaxRefs' = maxRefs
    /\ inMaxChars' = maxChars
    /\ inPreview' = preview
    /\ ownRefs' = << >>
    /\ rawTexts' = << >>
    /\ ownWindows' = << >>
    /\ hookSet' = FALSE
    /\ hookValue' = None
    /\ ioLog' = {}
    /\ failures' = {}
    /\ unavailable' = FALSE
    /\ opFailed' = TRUE
    /\ readLog' = << >>
    /\ inRecursive' = None
    /\ searchEnv' = None
    /\ UNCHANGED nonToolVars

\* A search call returned jsonResult({refs, disabled?, error?, ...})
SearchReturnedWith(name, preview, refs, own, dis, err, hooked, io, unavail, failed, rec, env) ==
    /\ op' = name
    /\ outcome' = "returned"
    /\ disabled' = dis
    /\ hasError' = err
    /\ refsOut' = refs
    /\ resultsOut' = << >>
    /\ inRefs' = << >>
    /\ inMaxRefs' = None
    /\ inMaxChars' = None
    /\ inPreview' = preview
    /\ ownRefs' = own
    /\ rawTexts' = << >>
    /\ ownWindows' = << >>
    /\ hookSet' = IsSome(hooked)
    /\ hookValue' = hooked
    /\ ioLog' = io
    /\ failures' = {}
    /\ unavailable' = unavail
    /\ opFailed' = failed
    /\ readLog' = << >>
    /\ inRecursive' = rec
    /\ searchEnv' = env
    /\ UNCHANGED nonToolVars

SearchReturned(name, preview, refs, own, dis, err, hooked, io, unavail, failed) ==
    SearchReturnedWith(name, preview, refs, own, dis, err, hooked, io, unavail, failed, None, None)

\* The recursive argument a caller may add to the parameters
RecursiveInputs == {None, Some([maxHops |-> 0]), Some([maxHops |-> 1])}

\* readNumberParam(params, "previewChars") ?? 140: of the parameters, execute
\* reads query, maxResults, minScore and previewChars
readPreviewCharsOrHops(params) ==
    IF IsSome(params.recursive) THEN params.recursive[1].maxHops
    ELSE OrElse(params.previewChars, DefaultPreviewChars)
readPreviewChars(params) == OrElse(params.previewChars, DefaultPreviewChars)

\* The refs of a successful call: the handler's refs if a hook set them
memorySearchRefs(params, hits, henv) ==
    LET refs == toRefs(hits, readPreviewChars(params))
    IN  [own |-> refs, augmented |-> augmentMemorySearch(refs, henv),
         refs |-> HookResult(augmentMemorySearch(refs, henv), refs)]

MemorySearchRefs ==
    /\ op = "idle"
    /\ \E query \in QueryInputs, preview \in PreviewInputs,
       recursive \in RecursiveInputs,
       manager \in {"ok", "none"}, searchOk \in BOOLEAN,
       hits \in SearchResultLists, henv \in HookEnvs :
        LET params == [query |-> query, previewChars |-> preview, recursive |-> recursive]
            out == memorySearchRefs(params, hits, henv)
        IN  IF ~readStringParamReturns(query)
            THEN /\ manager = "ok" /\ searchOk /\ hits = << >> /\ henv.kind = "absent"
                 /\ recursive = None
                 /\ Threw("memory_search_refs", None, None, preview, << >>)
            ELSE IF manager = "none"
            THEN /\ searchOk /\ hits = << >> /\ henv.kind = "absent"
                 /\ SearchReturnedWith("memory_search_refs", preview, << >>, << >>,
                                       TRUE, TRUE, None, {<<"manager">>}, TRUE, FALSE,
                                       recursive, None)
            ELSE IF ~searchOk
            THEN /\ hits = << >> /\ henv.kind = "absent"
                 /\ SearchReturnedWith("memory_search_refs", preview, << >>, << >>,
                                       TRUE, TRUE, None, {<<"manager">>, <<"search">>},
                                       FALSE, TRUE, recursive, None)
            ELSE SearchReturnedWith("memory_search_refs", preview,
                                    out.refs, out.own,
                                    FALSE, FALSE, out.augmented,
                                    {<<"manager">>, <<"search">>}
                                        \cup (IF henv.kind \in {"ok", "exec_fails"}
                                              THEN {<<"exec">>} ELSE {}),
                                    FALSE, FALSE, recursive,
                                    Some([hits |-> hits, henv |-> henv]))

Init ==
    /\ op = "idle"
    /\ outcome = "none"
    /\ disabled = FALSE
    /\ hasError = FALSE
    /\ refsOut = << >>
    /\ resultsOut = << >>
    /\ inRefs = << >>
    /\ inMaxRefs = None
    /\ inMaxChars = None
    /\ inPreview = None
    /\ ownRefs = << >>
    /\ rawTexts = << >>
    /\ ownWindows = << >>
    /\ hookSet = FALSE
    /\ hookValue = None
    /\ ioLog = {}
    /\ failures = {}
    /\ unavailable = FALSE
    /\ opFailed = FALSE
    /\ readLog = << >>
    /\ inRecursive = None
    /\ searchEnv = None
    /\ RefreshVarsInit
    /\ IndexVarsInit
    /\ ExecVarsInit
    /\ SearchVarsInit
    /\ HarnessVarsInit
    /\ EmitVarsInit

----------------------------------------------------------------------------
(* memory_expand *)

TruncationMarker ==
    <<"\n", "ELLIPSIS", "T", "R", "U", "N", "C", "A", "T", "E", "D", "ELLIPSIS">>

DefaultLines == 60
DefaultMaxRefs == 2
DefaultMaxChars == 8000

\* Workspace memory files, as lines
MemoryFiles == [p \in {"notes.md"} |-> << <<"a", "b", "c">>, <<"d", "e">>, <<"f">> >>]

\* manager.readFile({relPath, from, lines}): fails on a path that is not a
\* readable workspace file, else the lines [from - 1, from + lines - 1) joined by LF
MemoryReadFile(relPath, from, lines) ==
    IF relPath \notin DOMAIN MemoryFiles
    THEN [ok |-> FALSE, text |-> << >>]
    ELSE LET start == Max(from, 1) - 1
         IN  [ok |-> TRUE,
              text |-> JoinLines(JsSlice(MemoryFiles[relPath], start,
                                         Max(start + lines, start)))]

MemRef(p, sl, el, f, l) ==
    [path |-> p, startLine |-> sl, endLine |-> el, from |-> f, lines |-> l]

MemRefPool ==
    { MemRef("notes.md", Some(1), Some(3), None, None),
      MemRef("notes.md", None, None, Some(2), Some(1)),
      MemRef("notes.md", None, None, None, None),
      MemRef("notes.md", None, None, Some(0), Some(500)),
      MemRef("missing.md", Some(1), Some(1), None, None) }

normalizeRef(ref, defaultLines) ==
    [path |-> ref.path,
     from |-> OrElse(ref.from, OrElse(ref.startLine, 1)),
     lines |-> OrElse(ref.lines,
                      IF IsSome(ref.startLine) /\ IsSome(ref.endLine)
                      THEN Max(1, ref.endLine[1] - ref.startLine[1] + 1)
                      ELSE defaultLines)]

\* Mutant: the slice keeps one character too many
TruncateTextOffByOne(text, maxChars) ==
    IF Len(text) > maxChars
    THEN JsSlice(text, 0, maxChars + 1) \o TruncationMarker
    ELSE text

\* Mutant: a text of exactly maxChars characters is marked as truncated
TruncateTextAtLimit(text, maxChars) ==
    IF Len(text) >= maxChars
    THEN JsSlice(text, 0, maxChars) \o TruncationMarker
    ELSE text

\* out.text.length > maxChars ? out.text.slice(0, maxChars) + marker : out.text
TruncateText(text, maxChars) ==
    IF Len(text) > maxChars
    THEN JsSlice(text, 0, maxChars) \o TruncationMarker
    ELSE text

\* The for loop over limitedRefs; a readFile that throws ends the loop
RECURSIVE expandLoop(_, _, _, _, _)
expandLoop(refs, i, defaultLines, maxChars, acc) ==
    IF i > Len(refs) THEN acc
    ELSE LET nr == normalizeRef(refs[i], defaultLines)
             out == MemoryReadFile(nr.path, nr.from, nr.lines)
             reads == acc.reads \cup {<<"read", nr.path>>}
         IN  IF ~out.ok
             THEN [acc EXCEPT !.ok = FALSE, !.reads = reads, !.failed = {i}]
             ELSE expandLoop(refs, i + 1, defaultLines, maxChars,
                    [acc EXCEPT
                       !.reads = reads,
                       !.log = Append(@, [from |-> nr.from, lines |-> nr.lines,
                                          fileLines |-> Len(MemoryFiles[nr.path])]),
                       !.raws = Append(@, out.text),
                       !.windows = Append(@,
                           [path |-> nr.path, from |-> nr.from, lines |-> nr.lines,
                            text |-> TruncateText(out.text, maxChars)])])

\* What the memory_expand:post handlers leave in context.augmentedExpanded
ExpandHookOutcomes ==
    { None,
      Some(<< >>),
      Some(<<[path |-> "hook.md", from |-> 1, lines |-> 1,
              text |-> Repeat("h", 20)]>>) }

MaxCharsInputs == {None} \cup {Some(n) : n \in (-1)..MaxCharsIn}
MaxRefsInputs == {None} \cup {Some(n) : n \in 0..MaxRefsIn}
DefaultLinesInputs == {None, Some(1)}

\* An expand / get call returned jsonResult({results, disabled?, error?, ...})
ExpandReturned(name, refs, maxRefs, maxChars, results, own, raws, dis, err, hooked, io, failed, unavail, opfail, rl) ==
    /\ op' = name
    /\ outcome' = "returned"
    /\ disabled' = dis
    /\ hasError' = err
    /\ refsOut' = << >>
    /\ resultsOut' = results
    /\ inRefs' = refs
    /\ inMaxRefs' = maxRefs
    /\ inMaxChars' = maxChars
    /\ inPreview' = None
    /\ ownRefs' = << >>
    /\ rawTexts' = raws
    /\ ownWindows' = own
    /\ hookSet' = IsSome(hooked)
    /\ hookValue' = hooked
    /\ ioLog' = io
    /\ failures' = failed
    /\ unavailable' = unavail
    /\ opFailed' = opfail
    /\ readLog' = rl
    /\ inRecursive' = None
    /\ searchEnv' = None
    /\ UNCHANGED nonToolVars

MemoryExpand ==
    /\ op = "idle"
    /\ \E refs \in SeqsUpTo(MemRefPool, MaxRefsIn), dl \in DefaultLinesInputs,
          mr \in MaxRefsInputs, mc \in MaxCharsInputs,
          manager \in {"ok", "none"}, augmented \in ExpandHookOutcomes :
        LET defaultLines == OrElse(dl, DefaultLines)
            maxRefs == OrElse(mr, DefaultMaxRefs)
            maxChars == OrElse(mc, DefaultMaxChars)
            limitedRefs == JsSlice(refs, 0, maxRefs)
            run == expandLoop(limitedRefs, 1, defaultLines, maxChars,
                              [ok |-> TRUE, windows |-> << >>, raws |-> << >>,
                               reads |-> {}, failed |-> {}, log |-> << >>])
        IN  IF refs = << >>
            THEN /\ manager = "ok" /\ augmented = None
                 /\ ExpandReturned("memory_expand", refs, mr, mc, << >>, << >>,
                                   << >>, FALSE, TRUE, None, {}, {}, FALSE, TRUE,
                                   << >>)
            ELSE IF manager = "none"
            THEN /\ augmented = None
                 /\ ExpandReturned("memory_expand", refs, mr, mc, << >>, << >>,
                                   << >>, TRUE, TRUE, None, {<<"manager">>}, {},
                                   TRUE, FALSE, << >>)
            ELSE IF ~run.ok
            THEN /\ augmented = None
                 /\ ExpandReturned("memory_expand", refs, mr, mc, << >>,
                                   run.windows, run.raws, TRUE, TRUE, None,
                                   {<<"manager">>} \cup run.reads, run.failed,
                                   FALSE, TRUE, run.log)
            ELSE ExpandReturned("memory_expand", refs, mr, mc,
                                HookResult(augmented, run.windows), run.windows,
                                run.raws, FALSE, FALSE, augmented,
                                {<<"manager">>} \cup run.reads, {}, FALSE, FALSE,
                                run.log)

----------------------------------------------------------------------------
(* Session transcript paths: rlm_get and rlm_expand *)
(* The literal "sessions/" is abbreviated to "s/" and ".jsonl" to ".j".    *)

SessionsPrefix == <<"s", "/">>
JsonlExt == <<".", "j">>

\* relPath.replace(/^[./]+/, "")
RECURSIVE StripLead(_)
StripLead(s) ==
    IF s # << >> /\ Head(s) \in {".", "/"} THEN StripLead(Tail(s)) ELSE s

\* s.split("/")
RECURSIVE SplitSlash(_, _)
SplitSlash(s, cur) ==
    IF s = << >> THEN <<cur>>
    ELSE IF Head(s) = "/" THEN <<cur>> \o SplitSlash(Tail(s), << >>)
    ELSE SplitSlash(Tail(s), Append(cur, Head(s)))

\* path.join(dir, file): the segments of file resolved against dir
RECURSIVE JoinSegments(_, _)
JoinSegments(stack, segs) ==
    IF segs = << >> THEN stack
    ELSE LET g == Head(segs)
         IN  IF g = << >> \/ g = <<".">> THEN JoinSegments(stack, Tail(segs))
             ELSE IF g = <<".", ".">>
             THEN JoinSegments(IF stack = << >> THEN stack
                               ELSE SubSeq(stack, 1, Len(stack) - 1), Tail(segs))
             ELSE JoinSegments(Append(stack, g), Tail(segs))

PathJoin(dir, file) == JoinSegments(dir, SplitSlash(file, << >>))

AgentDir == << <<"h">> >>
\* resolveSessionTranscriptsDirForAgent(agentId)
SessionsDir == Append(AgentDir, <<"s">>)

\* The traversal guard: file.includes("..") || includes("/") || includes("\\")
IsUnsafeFileName(file) ==
    \/ Includes(file, <<".", ".">>)
    \/ Includes(file, <<"/">>)
    \/ Includes(file, <<"\\">>)

\* Mutant: the traversal guard is missing
resolveWithoutTraversalGuard(relPath) ==
    LET rel == StripLead(relPath)
        file == SubSeq(rel, Len(SessionsPrefix) + 1, Len(rel))
    IN  IF ~(StartsWith(rel, SessionsPrefix) /\ Len(rel) > Len(SessionsPrefix))
        THEN [ok |-> FALSE, abs |-> << >>]
        ELSE IF ~EndsWith(file, JsonlExt)
        THEN [ok |-> FALSE, abs |-> << >>]
        ELSE [ok |-> TRUE, abs |-> PathJoin(SessionsDir, file)]

resolveSessionFileAbs(relPath) ==
    LET rel == StripLead(relPath)
        file == SubSeq(rel, Len(SessionsPrefix) + 1, Len(rel))
    IN  IF ~(StartsWith(rel, SessionsPrefix) /\ Len(rel) > Len(SessionsPrefix))
        THEN [ok |-> FALSE, abs |-> << >>]
        ELSE IF ~EndsWith(file, JsonlExt)
        THEN [ok |-> FALSE, abs |-> << >>]
        ELSE IF IsUnsafeFileName(file)
        THEN [ok |-> FALSE, abs |-> << >>]
        ELSE [ok |-> TRUE, abs |-> PathJoin(SessionsDir, file)]

\* Files on disk, as lines: two transcripts of the agent and one file that
\* lies outside the sessions directory
TranscriptLines == << <<"a", "b", "c">>, <<"d", "e">>, <<"f", "g">> >>
DiskFiles ==
    (Append(SessionsDir, <<"x", ".", "j">>) :> TranscriptLines)
    @@ (Append(SessionsDir, <<".", "j">>) :> << <<"k">> >>)
    @@ (Append(AgentDir, <<".", "j">>) :> << <<"S", "E", "C", "R", "E", "T">> >>)

clampInt(n, min, max) == Max(min, Min(max, n))

\* readLines(absPath, from, lines); fs.readFile throws on a missing file
readLines(absPath, from, lines) ==
    IF absPath \notin DOMAIN DiskFiles
    THEN [ok |-> FALSE, text |-> << >>, start |-> 0, fileLines |-> 0]
    ELSE LET all == DiskFiles[absPath]
             start == clampInt(from, 1, Len(all))
             end == clampInt(start + lines - 1, start, Len(all))
         IN  [ok |-> TRUE, text |-> JoinLines(JsSlice(all, start - 1, end)),
              start |-> start, fileLines |-> Len(all)]

PathAlphabet == {".", "/", "\\", "s", "j"}

\* Paths longer than MaxPathLen that the calls are also tried on
PathPool ==
    { <<"s", "/", "x", ".", "j">>,
      <<"/", "s", "/", "x", ".", "j">>,
      <<".", ".", "/", "s", "/", "x", ".", "j">>,
      <<"s", "/", ".", ".", "/", ".", "j">>,
      <<"s", "/", "j", ".", "j">>,
      <<"s", "/", "x", "\\", ".", "j">>,
      <<"x", "/", "s", "/", "x", ".", "j">> }

PathInputs == SeqsUpTo(PathAlphabet, MaxPathLen) \cup PathPool

GetDefaultLines == 80
MaxWindowLines == 400

RlmGet ==
    /\ op = "idle"
    /\ \E path \in {None} \cup {Some(p) : p \in PathInputs},
          w \in {<<None, None>>, <<Some(2), Some(1)>>, <<Some(0), Some(500)>>} :
        LET from == OrElse(w[1], 1)
            lines == OrElse(w[2], GetDefaultLines)
            res == resolveSessionFileAbs(path[1])
            out == readLines(res.abs, from, clampInt(lines, 1, MaxWindowLines))
            ref == <<[path |-> path[1], startLine |-> w[1], endLine |-> None]>>
        IN  IF ~readStringParamReturns(path)
            THEN /\ w = <<None, None>>
                 /\ Threw("rlm_get", None, None, None, << >>)
            ELSE IF ~res.ok
            THEN ExpandReturned("rlm_get", ref, None, None, << >>, << >>, << >>,
                                TRUE, TRUE, None, {}, {1}, FALSE, TRUE, << >>)
            ELSE IF ~out.ok
            THEN ExpandReturned("rlm_get", ref, None, None, << >>, << >>, << >>,
                                TRUE, TRUE, None, {<<"read", res.abs>>}, {1},
                                FALSE, TRUE, << >>)
            ELSE LET win == <<[path |-> path[1], from |-> from, lines |-> lines,
                              text |-> out.text]>>
                 IN  ExpandReturned("rlm_get", ref, None, None, win, win,
                                    <<out.text>>, FALSE, FALSE, None,
                                    {<<"read", res.abs>>}, {}, FALSE, FALSE,
                                    <<[from |-> out.start,
                                       lines |-> clampInt(lines, 1, MaxWindowLines),
                                       fileLines |-> out.fileLines]>>)

----------------------------------------------------------------------------
(* rlm_expand *)

ExpandMaxRefsCap == 20
MaxCenterLine == 10000000
RlmDefaultMaxRefs == 5

RlmRef(p, sl, el) == [path |-> p, startLine |-> sl, endLine |-> el]

RlmRefPool ==
    { RlmRef(<<"s", "/", "x", ".", "j">>, Some(2), Some(2)),
      RlmRef(<<"/", "s", "/", "x", ".", "j">>, None, None),
      RlmRef(<<"s", "/", ".", ".", "/", ".", "j">>, None, Some(1)),
      RlmRef(<<"s", "/", "j", ".", "j">>, Some(1), None),
      RlmRef(<< >>, None, None) }

\* Lists of three refs, for a budget that runs out before the last ref
RlmRefTriples ==
    { << RlmRef(<<"s", "/", "x", ".", "j">>, Some(2), Some(2)),
         RlmRef(<<"/", "s", "/", "x", ".", "j">>, None, None),
         RlmRef(<<"s", "/", "x", ".", "j">>, Some(2), Some(2)) >> }

\* The for loop of rlm_expand: a ref without path is skipped, a ref whose
\* read throws is skipped, the loop ends once the budget is used up
RECURSIVE rlmExpandLoop(_, _, _, _, _)
\* text.slice(0, Math.max(0, remaining)): the text cut to what is left of the
\* budget
clipToBudgetWhole(text, remaining) == text
clipToBudget(text, remaining) == JsSlice(text, 0, Max(0, remaining))

rlmExpandLoop(refs, i, defaultLines, remaining, acc) ==
    IF i > Len(refs) THEN acc
    ELSE LET ref == refs[i]
             center == clampInt(OrElse(ref.startLine, OrElse(ref.endLine, 1)),
                                1, MaxCenterLine)
             lines == clampInt(defaultLines, 1, MaxWindowLines)
             from == Max(1, center - (lines \div 2))
             res == resolveSessionFileAbs(ref.path)
             out == readLines(res.abs, from, lines)
             clipped == clipToBudget(out.text, remaining)
         IN  IF ref.path = << >>
             THEN rlmExpandLoop(refs, i + 1, defaultLines, remaining, acc)
             ELSE IF ~res.ok
             THEN rlmExpandLoop(refs, i + 1, defaultLines, remaining,
                                [acc EXCEPT !.failed = @ \cup {i}])
             ELSE IF ~out.ok
             THEN rlmExpandLoop(refs, i + 1, defaultLines, remaining,
                                [acc EXCEPT !.failed = @ \cup {i},
                                            !.reads = @ \cup {<<"read", res.abs>>}])
             ELSE LET acc2 == [acc EXCEPT
                                 !.reads = @ \cup {<<"read", res.abs>>},
                                 !.log = Append(@, [from |-> out.start, lines |-> lines,
                                                    fileLines |-> out.fileLines]),
                                 !.raws = Append(@, out.text),
                                 !.windows = Append(@,
                                     [path |-> ref.path, from |-> from,
                                      lines |-> lines, text |-> clipped])]
                  IN  IF remaining - Len(clipped) <= 0 THEN acc2
                      ELSE rlmExpandLoop(refs, i + 1, defaultLines,
                                         remaining - Len(clipped), acc2)

\* execute(id, undefined): raw.refs is read before anything else
ParamsInputs == {"object", "undefined"}

RlmExpand ==
    /\ op = "idle"
    /\ \E params \in ParamsInputs,
          refs \in SeqsUpTo(RlmRefPool, MaxRefsIn) \cup RlmRefTriples,
          dl \in DefaultLinesInputs,
          mr \in MaxRefsInputs, mc \in MaxCharsInputs :
        LET defaultLines == OrElse(dl, DefaultLines)
            maxRefs == OrElse(mr, RlmDefaultMaxRefs)
            maxChars == OrElse(mc, DefaultMaxChars)
            run == rlmExpandLoop(JsSlice(refs, 0, clampInt(maxRefs, 1, ExpandMaxRefsCap)),
                                 1, defaultLines, maxChars,
                                 [windows |-> << >>, raws |-> << >>,
                                  reads |-> {}, failed |-> {}, log |-> << >>])
        IN  IF params = "undefined"
            THEN /\ refs = << >> /\ dl = None /\ mr = None /\ mc = None
                 /\ Threw("rlm_expand", None, None, None, << >>)
            ELSE ExpandReturned("rlm_expand", refs, mr, mc, run.windows,
                                run.windows, run.raws, FALSE, FALSE, None,
                                run.reads, run.failed, FALSE, run.failed # {},
                                run.log)

----------------------------------------------------------------------------
(* rlm_search_refs *)

SearchPrefix == <<"HI", "LO", " ">>
RlmDefaultPreviewChars == 200
RlmDefaultMaxResults == 10

\* Entries of the "results" array printed by temporal_search.py --json; a
\* number n stands for n/2, so that 5 is 2.5
JsonEntry(se, f, l, t) == [session |-> se, file |-> f, line |-> l, text |-> t]
JsonEntries ==
    { JsonEntry(Some("s1"), Some("a.jsonl"), Some(5), Some(<<"a", "b", " ", "c", "d">>)),
      JsonEntry(Some("s1"), Some("a.jsonl"), Some(-3), Some(<<"a", "b">>)),
      JsonEntry(Some("s2"), Some("b.jsonl"), None, Some(Blob40)),
      JsonEntry(None, Some("b.jsonl"), Some(2), Some(<<"a", "b">>)) }

\* Math.floor of n/2
FloorHalf(n) == n \div 2

RECURSIVE normalizeResults(_)
normalizeResults(entries) ==
    IF entries = << >> THEN << >>
    ELSE LET r == Head(entries)
             rest == normalizeResults(Tail(entries))
         IN  IF IsSome(r.session) /\ IsSome(r.file) /\ IsSome(r.text)
             THEN <<[sessionId |-> r.session[1],
                     file |-> r.file[1],
                     line |-> IF IsSome(r.line) THEN Max(1, FloorHalf(r.line[1])) ELSE 1,
                     snippet |-> r.text[1]]>> \o rest
             ELSE rest

\* Output of the child process: it fails, prints nothing, prints text that
\* is not JSON, or prints a JSON object with these results
ScriptOutputs ==
    { [kind |-> k, results |-> << >>] : k \in {"exec_fails", "empty", "bad_json"} }
    \cup { [kind |-> "json", results |-> l] : l \in SeqsUpTo(JsonEntries, MaxRefsIn) }

MaxResultsInputs == {None, Some(0), Some(1)}

RlmSearchRefs ==
    /\ op = "idle"
    /\ \E query \in QueryInputs, mx \in MaxResultsInputs, preview \in PreviewInputs,
          enabled \in BOOLEAN, script \in ScriptOutputs :
        LET parsed == normalizeResults(script.results)
            limit == IF IsSome(mx) /\ mx[1] > 0 THEN mx[1] ELSE RlmDefaultMaxResults
            previewLimit == IF IsSome(preview) /\ preview[1] > 0 THEN preview[1]
                            ELSE RlmDefaultPreviewChars
            top == JsSlice(parsed, 0, limit)
            refs == [i \in 1..Len(top) |->
                       [path |-> "sessions/" \o top[i].file,
                        startLine |-> top[i].line,
                        endLine |-> top[i].line,
                        score |-> 550 - (i - 1),
                        source |-> "sessions",
                        preview |-> SearchPrefix \o rlmMakePreview(top[i].snippet, previewLimit),
                        sessionId |-> top[i].sessionId]]
        IN  IF ~readStringParamReturns(query)
            THEN /\ mx = None /\ enabled /\ script.kind = "empty"
                 /\ Threw("rlm_search_refs", None, None, preview, << >>)
            ELSE IF ~enabled
            THEN /\ mx = None /\ script.kind = "empty"
                 /\ SearchReturned("rlm_search_refs", preview, << >>, << >>, TRUE,
                                   TRUE, None, {}, TRUE, FALSE)
            ELSE IF script.kind \in {"exec_fails", "bad_json"}
            THEN /\ mx = None
                 /\ SearchReturned("rlm_search_refs", preview, << >>, << >>, TRUE,
                                   TRUE, None, {<<"exec">>}, FALSE, TRUE)
            ELSE SearchReturned("rlm_search_refs", preview, refs, refs, FALSE,
                                FALSE, None, {<<"exec">>}, FALSE, FALSE)

\* The text-output variant of rlm_search_refs (no --json)
RlmSearchRefsText ==
    /\ op = "idle"
    /\ \E query \in QueryInputs, mx \in MaxResultsInputs, preview \in PreviewInputs,
          execOk \in BOOLEAN, parsed \in RlmTextResultLists :
        LET limit == IF IsSome(mx) /\ mx[1] > 0 THEN mx[1] ELSE RlmDefaultMaxResults
            previewLimit == IF IsSome(preview) /\ preview[1] > 0 THEN preview[1]
                            ELSE RlmDefaultPreviewChars
            top == JsSlice(parsed, 0, limit)
            refs == [i \in 1..Len(top) |->
                       [path |-> TranscriptPath(top[i].date),
                        startLine |-> 0,
                        endLine |-> 0,
                        score |-> OrElse(top[i].score, 550 - (i - 1)),
                        source |-> "sessions",
                        preview |-> SearchPrefix \o rlmMakePreview(top[i].snippet, previewLimit)]]
        IN  IF ~readStringParamReturns(query)
            THEN /\ mx = None /\ execOk /\ parsed = << >>
                 /\ Threw("rlm_search_refs_text", None, None, preview, << >>)
            ELSE IF ~execOk
            THEN /\ mx = None /\ parsed = << >>
                 /\ SearchReturned("rlm_search_refs_text", preview, << >>, << >>,
                                   TRUE, TRUE, None, {<<"exec">>}, FALSE, TRUE)
            ELSE SearchReturned("rlm_search_refs_text", preview, refs, refs, FALSE,
                                FALSE, None, {<<"exec">>}, FALSE, FALSE)

\* The caller takes the result; the next call starts from scratch
Consume ==
    /\ op # "idle"
    /\ op' = "idle"
    /\ outcome' = "none"
    /\ disabled' = FALSE
    /\ hasError' = FALSE
    /\ refsOut' = << >>
    /\ resultsOut' = << >>
    /\ inRefs' = << >>
    /\ inMaxRefs' = None
    /\ inMaxChars' = None
    /\ inPreview' = None
    /\ ownRefs' = << >>
    /\ rawTexts' = << >>
    /\ ownWindows' = << >>
    /\ hookSet' = FALSE
    /\ hookValue' = None
    /\ ioLog' = {}
    /\ failures' = {}
    /\ unavailable' = FALSE
    /\ opFailed' = FALSE
    /\ readLog' = << >>
    /\ inRecursive' = None
    /\ searchEnv' = None
    /\ UNCHANGED nonToolVars

Next ==
    \/ MemorySearchRefs
    \/ MemoryExpand
    \/ RlmGet
    \/ RlmExpand
    \/ RlmSearchRefs
    \/ RlmSearchRefsText
    \/ Consume

Spec == Init /\ [][Next]_vars

----------------------------------------------------------------------------
(* The rlm-index-refresh hook: refreshOnTranscriptUpdate and its timers.    *)
(* A session file is the sequence of its path segments; a file name is      *)
(* <<stem, extension>>.                                                     *)

\* Map.get(k) ?? d, Map.set(k, v)
MapGet(m, k, d) == IF k \in DOMAIN m THEN m[k] ELSE d
MapSet(m, k, v) == [x \in (DOMAIN m) \cup {k} |-> IF x = k THEN v ELSE m[x]]

\* sessionFile.match(/agents\/([^/]+)\/sessions\/[^/]+\.jsonl$/)?.[1] ?? null
extractAgentId(sessionFile) ==
    LET n == Len(sessionFile)
    IN  IF /\ n >= 4
           /\ sessionFile[n - 3] = "agents"
           /\ sessionFile[n - 1] = "sessions"
           /\ sessionFile[n][1] # ""
           /\ sessionFile[n][2] = ".jsonl"
        THEN Some(sessionFile[n - 2])
        ELSE None

\* MAX_QUEUE_SIZE of the hook's documentation: the bound the pending updates
\* are documented to respect
MAX_QUEUE_SIZE == 100

\* Granularity of the clock and length of the observed period
TicksPerDebounce == 4
MaxTicks == 28
TickMs == DEBOUNCE_MS \div TicksPerDebounce
EndTime == StartTime + MaxTicks * TickMs

SessionFiles ==
    { <<"home", "agents", "main", "sessions", <<"s1", ".jsonl">> >>,
      <<"home", "agents", "main", "sessions", <<"s2", ".jsonl">> >>,
      <<"tmp", <<"s3", ".jsonl">> >> }

\* Internal hook events the handler is called with
HookEvents ==
    { [type |-> "session", action |-> "transcript:update", sessionFile |-> Some(f)] :
          f \in SessionFiles }
    \cup { [type |-> "session", action |-> "transcript:update", sessionFile |-> None],
           [type |-> "command", action |-> "new", sessionFile |-> None] }

\* Mutant: the timer is set for a tenth of the debounce delay
TimerDueEarly(t) == t + (DEBOUNCE_MS \div 10)

\* Mutant: the timer is set for half the time a refresh may take
TimerDueWithinRefresh(t) == t + (REFRESH_TIMEOUT_MS \div 2)

\* setTimeout(..., DEBOUNCE_MS) called at time t: when the callback runs
TimerDue(t) == t + DEBOUNCE_MS

\* now - last < COOLDOWN_MS
InCooldown(t, last) == t - last < COOLDOWN_MS

\* The handler, called with one event for agents drawn from events
refreshOnTranscriptUpdate(event) ==
    IF event.type # "session" \/ event.action # "transcript:update"
    THEN UNCHANGED nonToolVars
    ELSE IF ~IsSome(event.sessionFile)
    THEN UNCHANGED nonToolVars
    ELSE LET agentId == OrElse(extractAgentId(event.sessionFile[1]), "main")
             last == MapGet(lastRun, agentId, 0)
         IN  /\ lastEventAt' = MapSet(lastEventAt, agentId, now)
             /\ uncovered' = MapSet(uncovered, agentId, TRUE)
             /\ UNCHANGED <<now, lastRun, runs, lastStart, lastEnd>>
             /\ IF InCooldown(now, last)
                THEN UNCHANGED pending
                ELSE \* clearTimeout(pending.get(agentId)); pending.set(agentId, timer)
                     pending' = MapSet(pending, agentId,
                                       [due |-> TimerDue(now), active |-> TRUE])

TranscriptUpdate ==
    /\ \E event \in HookEvents : refreshOnTranscriptUpdate(event)
    /\ UNCHANGED nonRefreshVars

\* The timer callback starts: refreshIndex is called for the agent
TimerFires ==
    /\ \E a \in DOMAIN pending :
        /\ pending[a].active
        /\ pending[a].due <= now
        /\ pending' = [pending EXCEPT ![a].active = FALSE]
        /\ runs' = runs \cup {[agent |-> a, start |-> now]}
        /\ uncovered' = MapSet(uncovered, a, FALSE)
        /\ lastStart' = MapSet(lastStart, a,
                               [at |-> now,
                                event |-> MapGet(lastEventAt, a, now),
                                prevDone |-> IF a \in DOMAIN lastRun
                                             THEN Some(lastRun[a]) ELSE None])
    /\ UNCHANGED <<now, lastRun, lastEventAt, lastEnd>>
    /\ UNCHANGED nonRefreshVars

\* execAsync resolves within its timeout: lastRun.set(agentId, Date.now())
RefreshSucceeds ==
    /\ \E r \in runs :
        /\ now - r.start <= REFRESH_TIMEOUT_MS
        /\ lastRun' = MapSet(lastRun, r.agent, now)
        /\ lastEnd' = MapSet(lastEnd, r.agent, [ok |-> TRUE, at |-> now])
        /\ runs' = runs \ {r}
    /\ UNCHANGED <<now, pending, lastEventAt, uncovered, lastStart>>
    /\ UNCHANGED nonRefreshVars

\* Mutant: the catch block records the failed attempt as a run
lastRunSetInCatch(agentId) == MapSet(lastRun, agentId, now)

\* lastRun after the catch block: console.error is all it does
lastRunAfterCatch(agentId) == lastRun

\* loadConfig or execAsync throws (missing script, exit code, timeout,
\* maxBuffer): the catch logs and lastRun is left alone
RefreshFails ==
    /\ \E r \in runs :
        /\ runs' = runs \ {r}
        /\ lastRun' = lastRunAfterCatch(r.agent)
        /\ lastEnd' = MapSet(lastEnd, r.agent, [ok |-> FALSE, at |-> now])
    /\ UNCHANGED <<now, pending, lastEventAt, uncovered, lastStart>>
    /\ UNCHANGED nonRefreshVars

\* Points in time at which something must happen
Deadlines ==
    {pending[a].due : a \in {x \in DOMAIN pending : pending[x].active}}
    \cup {r.start + REFRESH_TIMEOUT_MS : r \in runs}

\* Time passes, up to the next tick or the next deadline
Tick ==
    /\ now < EndTime
    /\ \A d \in Deadlines : d > now
    /\ LET next == {now + TickMs} \cup Deadlines
       IN  now' = CHOOSE t \in next : \A u \in next : t <= u
    /\ UNCHANGED <<pending, lastRun, runs, lastEventAt, uncovered, lastStart, lastEnd>>
    /\ UNCHANGED nonRefreshVars

RefreshNext ==
    \/ TranscriptUpdate
    \/ TimerFires
    \/ RefreshSucceeds
    \/ RefreshFails
    \/ Tick

RefreshSpec == Init /\ [][RefreshNext]_vars

\* A burst: events for the session files of distinct agents arrive at one
\* instant; agents are numbered, and agent k + 1 is heard of after agent k
BurstAgents == 1..(MAX_QUEUE_SIZE + 1)

BurstEvent(k) ==
    [type |-> "session", action |-> "transcript:update",
     sessionFile |-> Some(<<"home", "agents", k, "sessions", <<"s1", ".jsonl">> >>)]

BurstUpdate ==
    /\ \E k \in BurstAgents :
        /\ k <= Cardinality(DOMAIN pending) + 1
        /\ refreshOnTranscriptUpdate(BurstEvent(k))
    /\ UNCHANGED nonRefreshVars

BurstNext == BurstUpdate

BurstSpec == Init /\ [][BurstNext]_vars

----------------------------------------------------------------------------
(* The index maintainer: updateIndex(sessionId, sessionFilePath) on one      *)
(* session, called by several processes, and a reader of the index file.     *)
(* A file is an inode reached through a path; a rename makes the path point  *)
(* to another inode and leaves the old one to whoever has it open.  Inodes   *)
(* are named by their role: the one the index path leads to, the one the     *)
(* temp path leads to, and the unlinked one an earlier open still holds; a   *)
(* rename renames them accordingly.                                          *)

Inodes == {"ino-index", "ino-temp", "ino-unlinked"}

\* Tokens of line k of the transcript (lines share tokens)
LineTokens(k) ==
    CASE k % 3 = 1 -> {"alpha", "beta"}
      [] k % 3 = 2 -> {"beta", "gamma"}
      [] OTHER -> {"alpha"}

\* Step 3: the first line to read is the one after sessions[s].lastIndexedLine
FirstNewLineOfFile(idx) == 1
FirstNewLine(idx) == idx.lastIndexedLine + 1

\* Steps 4 and 5: tokenise lines k..eof, add the session to each token's
\* posting list (deduplicated) and advance lastIndexedLine
RECURSIVE indexLines(_, _, _)
indexLines(idx, k, eof) ==
    IF k > eof THEN idx
    ELSE indexLines([lastIndexedLine |-> k,
                     tokens |-> idx.tokens \cup LineTokens(k),
                     times |-> MapSet(idx.times, k, MapGet(idx.times, k, 0) + 1)],
                    k + 1, eof)

\* Step 1: the exclusive lock is granted when nobody holds it
LockAvailable(holder) == holder = {}

\* Step 6: the serialised index goes to a sibling temp file
SavePathInPlace == IndexPath
SavePath == TempPath

\* inodes still reachable: through a path or through the reader's descriptor
LiveInodes(paths, fd) == {paths[p] : p \in DOMAIN paths} \cup {fd[i] : i \in DOMAIN fd}
Collect(inodes, paths, fd) == [i \in (DOMAIN inodes) \cap LiveInodes(paths, fd) |-> inodes[i]]

IndexFile == fsInodes[fsPaths[IndexPath]]

\* A message is appended to the transcript
AppendLine ==
    /\ sessionLen < MaxSessionLines
    /\ sessionLen' = sessionLen + 1
    /\ UNCHANGED <<fsPaths, fsInodes, lockHolder, upd, rets, readerFd, observed,
                   committed, totalAdded>>
    /\ UNCHANGED nonIndexVars

\* A process calls updateIndex(s, f)
CallUpdateIndex(u) ==
    /\ upd[u].pc = "idle"
    /\ upd' = [upd EXCEPT ![u] = [IdleUpdater EXCEPT !.pc = "waiting",
                                                     !.waited = (lockHolder # {})]]
    /\ UNCHANGED <<sessionLen, fsPaths, fsInodes, lockHolder, rets, readerFd,
                   observed, committed, totalAdded>>
    /\ UNCHANGED nonIndexVars

\* Step 1: acquire the exclusive file lock
AcquireLock(u) ==
    /\ upd[u].pc = "waiting"
    /\ LockAvailable(lockHolder)
    /\ lockHolder' = lockHolder \cup {u}
    /\ upd' = [upd EXCEPT ![u].pc = "locked"]
    /\ UNCHANGED <<sessionLen, fsPaths, fsInodes, rets, readerFd, observed,
                   committed, totalAdded>>
    /\ UNCHANGED nonIndexVars

\* Step 1, timeout: the update is aborted and its event dropped
LockTimeout(u) ==
    /\ upd[u].pc = "waiting"
    /\ ~LockAvailable(lockHolder)
    /\ upd' = [upd EXCEPT ![u] = IdleUpdater]
    /\ UNCHANGED <<sessionLen, fsPaths, fsInodes, lockHolder, rets, readerFd,
                   observed, committed, totalAdded>>
    /\ UNCHANGED nonIndexVars

\* Step 2: read and parse the index
ReadIndex(u) ==
    /\ upd[u].pc = "locked"
    /\ upd' = [upd EXCEPT ![u].pc = "parsed", ![u].before = IndexFile.idx,
                          ![u].mem = IndexFile.idx]
    /\ UNCHANGED <<sessionLen, fsPaths, fsInodes, lockHolder, rets, readerFd,
                   observed, committed, totalAdded>>
    /\ UNCHANGED nonIndexVars

\* Steps 3 to 5: read the transcript from lastIndexedLine to EOF and index it
IndexNewLines(u) ==
    /\ upd[u].pc = "parsed"
    /\ LET first == FirstNewLine(upd[u].mem)
       IN  upd' = [upd EXCEPT ![u].pc = "indexed",
                              ![u].eof = sessionLen,
                              ![u].mem = indexLines(upd[u].mem, first, sessionLen),
                              ![u].messagesAdded = Max(0, sessionLen - first + 1)]
    /\ UNCHANGED <<sessionLen, fsPaths, fsInodes, lockHolder, rets, readerFd,
                   observed, committed, totalAdded>>
    /\ UNCHANGED nonIndexVars

\* Step 6, first part: the file at SavePath is created or truncated and a
\* part of the serialised index is written
WriteTemp(u) ==
    /\ upd[u].pc = "indexed"
    /\ LET ino == IF SavePath \in DOMAIN fsPaths THEN fsPaths[SavePath]
                  ELSE "ino-temp"
       IN  /\ fsPaths' = MapSet(fsPaths, SavePath, ino)
           /\ fsInodes' = MapSet(fsInodes, ino, PartOfFile(upd[u].mem))
    /\ upd' = [upd EXCEPT ![u].pc = "writing"]
    /\ UNCHANGED <<sessionLen, lockHolder, rets, readerFd, observed, committed,
                   totalAdded>>
    /\ UNCHANGED nonIndexVars

\* Step 6, second part: the rest is written and fsync returns
SyncTemp(u) ==
    /\ upd[u].pc = "writing"
    /\ fsInodes' = MapSet(fsInodes, fsPaths[SavePath], WholeFile(upd[u].mem))
    /\ upd' = [upd EXCEPT ![u].pc = "synced"]
    /\ UNCHANGED <<sessionLen, fsPaths, lockHolder, rets, readerFd, observed,
                   committed, totalAdded>>
    /\ UNCHANGED nonIndexVars

\* Step 6, last part: atomic rename over the index file
RenameTemp(u) ==
    /\ upd[u].pc = "synced"
    /\ IF SavePath = IndexPath
       THEN UNCHANGED <<fsPaths, fsInodes, readerFd>>
       ELSE LET held == readerFd = Some(fsPaths[IndexPath])
                kept == {"ino-index"} \cup (IF IsSome(readerFd) THEN {"ino-unlinked"} ELSE {})
            IN  /\ fsPaths' = [p \in {IndexPath} |-> "ino-index"]
                /\ fsInodes' = [i \in kept |->
                                    IF i = "ino-index" THEN fsInodes[fsPaths[SavePath]]
                                    ELSE IF held THEN IndexFile
                                    ELSE fsInodes[i]]
                /\ readerFd' = IF held THEN Some("ino-unlinked") ELSE readerFd
    /\ committed' = committed \cup {upd[u].mem}
    /\ upd' = [upd EXCEPT ![u].pc = "renamed"]
    /\ UNCHANGED <<sessionLen, lockHolder, rets, observed, totalAdded>>
    /\ UNCHANGED nonIndexVars

\* Step 7: release the lock and return {messagesAdded, timeMs}
ReleaseLock(u) ==
    /\ upd[u].pc = "renamed"
    /\ lockHolder' = lockHolder \ {u}
    /\ rets' = [c \in {u} |-> [messagesAdded |-> upd[u].messagesAdded,
                                before |-> upd[u].before, after |-> upd[u].mem,
                                eof |-> upd[u].eof, waited |-> upd[u].waited]]
    /\ totalAdded' = totalAdded + upd[u].messagesAdded
    /\ upd' = [upd EXCEPT ![u] = IdleUpdater]
    /\ UNCHANGED <<sessionLen, fsPaths, fsInodes, readerFd, observed, committed>>
    /\ UNCHANGED nonIndexVars

\* An updater fails while it holds the lock: the lock is released with the
\* process, the files stay as they are
UpdaterFails(u) ==
    /\ upd[u].pc \in {"locked", "parsed", "indexed", "writing", "synced", "renamed"}
    /\ lockHolder' = lockHolder \ {u}
    /\ upd' = [upd EXCEPT ![u] = IdleUpdater]
    /\ UNCHANGED <<sessionLen, fsPaths, fsInodes, rets, readerFd, observed,
                   committed, totalAdded>>
    /\ UNCHANGED nonIndexVars

\* A reader (a search) opens the index file, without the lock
ReaderOpens ==
    /\ readerFd = None
    /\ readerFd' = Some(fsPaths[IndexPath])
    /\ UNCHANGED <<sessionLen, fsPaths, fsInodes, lockHolder, upd, rets, observed,
                   committed, totalAdded>>
    /\ UNCHANGED nonIndexVars

\* The reader reads the file it opened and closes it
ReaderReads ==
    /\ IsSome(readerFd)
    /\ observed' = [file |-> fsInodes[readerFd[1]],
                    midUpdate |-> \E u \in Updaters : upd[u].pc \in {"writing", "synced"}]
    /\ readerFd' = None
    /\ fsInodes' = Collect(fsInodes, fsPaths, None)
    /\ UNCHANGED <<sessionLen, fsPaths, lockHolder, upd, rets, committed, totalAdded>>
    /\ UNCHANGED nonIndexVars

updateIndex(u) ==
    \/ CallUpdateIndex(u)
    \/ AcquireLock(u)
    \/ LockTimeout(u)
    \/ ReadIndex(u)
    \/ IndexNewLines(u)
    \/ WriteTemp(u)
    \/ SyncTemp(u)
    \/ RenameTemp(u)
    \/ ReleaseLock(u)
    \/ UpdaterFails(u)

IndexNext ==
    \/ AppendLine
    \/ \E u \in Updaters : updateIndex(u)
    \/ ReaderOpens
    \/ ReaderReads

IndexSpec == Init /\ [][IndexNext]_vars

----------------------------------------------------------------------------
(* Child processes.  Every Python script is started with child_process.exec  *)
(* or execFile, promisified, inside a try / catch.  A state is the last      *)
(* call: where it was made, the options it passed, what the child did and    *)
(* what the caller got.                                                      *)

\* child_process defaults for the options a call leaves out: no timeout
\* (timeout: 0) and a stdout buffer of 1 MiB
ExecDefaults == [timeout |-> None, maxBuffer |-> Some(1024 * 1024)]

\* What a child can do: exit with 0, exit with an error, or never exit; and
\* how many bytes it writes to stdout
ChildRuns == {"exits", "fails", "hangs"}
ChildStdout == {0, 1024 * 1024 + 1, 10 * 1024 * 1024 + 1}
Children == [runs : ChildRuns, stdout : ChildStdout]

\* cfg.memory.rlm.timeoutMs: absent or a number
ConfigTimeouts == {None, Some(0), Some(5000), Some(30000)}

\* The timeout in force: a timeout option of 0 means no timeout
EffectiveTimeout(opts) ==
    IF IsSome(opts.timeout) /\ opts.timeout[1] > 0 THEN opts.timeout
    ELSE ExecDefaults.timeout

EffectiveMaxBuffer(opts) == OrElse(opts.maxBuffer, ExecDefaults.maxBuffer[1])

\* The promise of the promisified exec / execFile: "rejected" when stdout
\* exceeds maxBuffer or the timeout expires (the child is killed) or the child
\* exits with an error, "resolved" when it exits with 0, "pending" for ever
\* when the child never exits and no timeout is in force
execAsync(opts, child) ==
    IF child.stdout > EffectiveMaxBuffer(opts) THEN "rejected"
    ELSE IF child.runs = "hangs"
         THEN IF IsSome(EffectiveTimeout(opts)) THEN "rejected" ELSE "pending"
    ELSE IF child.runs = "fails" THEN "rejected"
    ELSE "resolved"

\* try { await exec...; return result } catch (err) { return / log the error }
TryAwait(promise) ==
    CASE promise = "resolved" -> "returned"
      [] promise = "rejected" -> "error"
      [] OTHER -> "hung"

ExecCall(site, opts, child) ==
    /\ execSite' = site
    /\ execOpts' = opts
    /\ execChild' = child
    /\ execResult' = TryAwait(execAsync(opts, child))
    /\ UNCHANGED nonExecVars

\* resolveScriptPath: timeoutMs is the configured number, else 30 s
resolveTimeoutMs(cfgTimeoutMs) == OrElse(cfgTimeoutMs, 30000)

\* handler.ts handleEvent: python3 handler.py <event>
HandleEvent ==
    \E child \in Children :
        ExecCall("handleEvent", [timeout |-> Some(60000), maxBuffer |-> Some(1024 * 1024)], child)

\* handler.ts healthCheck: python3 handler.py --help, without options
HealthCheck ==
    \E child \in Children :
        ExecCall("healthCheck", [timeout |-> None, maxBuffer |-> None], child)

\* rlm-index-refresh refreshIndex: python3 index-sessions.py --agent-id <id>
RefreshIndex ==
    \E child \in Children :
        ExecCall("refreshIndex", [timeout |-> Some(30000), maxBuffer |-> Some(1024 * 1024)], child)

\* rlm-augment augmentMemorySearch: python3 temporal_search.py <query>
AugmentMemorySearch ==
    \E child \in Children :
        ExecCall("augmentMemorySearch", [timeout |-> Some(10000), maxBuffer |-> Some(1024 * 1024)], child)

\* rlm_search, rlm_search_refs, rlm_context_search, rlm_context_search_refs:
\* python3 <script> [--json] <query> with the resolved timeout
RlmToolSites == {"rlm_search", "rlm_search_refs", "rlm_context_search", "rlm_context_search_refs"}

RlmToolExec ==
    \E site \in RlmToolSites, cfgTimeoutMs \in ConfigTimeouts, child \in Children :
        ExecCall(site, [timeout |-> Some(resolveTimeoutMs(cfgTimeoutMs)),
                        maxBuffer |-> Some(10 * 1024 * 1024)], child)

ExecNext ==
    \/ HandleEvent
    \/ HealthCheck
    \/ RefreshIndex
    \/ AugmentMemorySearch
    \/ RlmToolExec

ExecSpec == Init /\ [][ExecNext]_vars

----------------------------------------------------------------------------
(* The transcript search: the three-tier pipeline over the inverted index    *)
(* and the full-scan fallback.  A session is named by its rank in date       *)
(* order (a greater id is a newer session); its content is the set of tokens *)
(* of its text, and the index knows the tokens it had when it was last       *)
(* indexed.  Of the strategies of the enhanced matcher, substring            *)
(* containment and concept expansion are modelled.                           *)

MaxSessions == 3
Kc == 40

SessionIds == 1..MaxSessions
QueryTokens == {"glicko", "rating"}
SessionContents == {{}, {"glicko"}, {"rating"}, {"glicko", "rating"}, {"chess"}}

\* A session on disk and what the index holds of it: all of its tokens, or
\* none of them (the index is stale: the session was written after the last
\* update of the index)
SessionStates ==
    {[content |-> c, indexed |-> i] : c \in SessionContents, i \in SessionContents}
        \cap {st \in [content : SessionContents, indexed : SessionContents] :
                st.indexed \in {st.content, {}}}

Queries == (SUBSET QueryTokens) \ {{}}
MaxResultsChoices == {1, MaxSessions}
KcChoices == {1, Kc}

\* Concept expansion: a closed map from concept keys to related terms
ConceptTerms(token) == IF token = "glicko" THEN {"rating", "chess"} ELSE {}

\* The enhanced matcher on one query token: substring containment, then
\* concept expansion
TokenMatches(content, token) ==
    \/ token \in content
    \/ ConceptTerms(token) \cap content # {}

\* match_score of a session for a query: the number of query tokens matched
match_score(content, query) == Cardinality({t \in query : TokenMatches(content, t)})

\* Tier 1: intersection of the posting lists of the query tokens
intersect_posting_lists(sessions, query) ==
    {s \in DOMAIN sessions : query \subseteq sessions[s].indexed}

\* Tier 2: coarse score, the number of query tokens that occur as a substring
\* of the indexed text of the session
coarse_match(indexed, query) == Cardinality(query \cap indexed)

\* Sort a set of sessions by key[s] = <<score, rank>>: greater score first,
\* then smaller rank first
KeyBefore(k1, k2) == k1[1] > k2[1] \/ (k1[1] = k2[1] /\ k1[2] < k2[2])

RECURSIVE SortBy(_, _)
SortBy(S, key) ==
    IF S = {} THEN << >>
    ELSE LET first == CHOOSE a \in S : \A b \in S \ {a} : KeyBefore(key[a], key[b])
         IN  <<first>> \o SortBy(S \ {first}, key)

Top(seq, n) == SubSeq(seq, 1, Min(n, Len(seq)))
Range(seq) == {seq[i] : i \in DOMAIN seq}

\* Tier 2: by coarse score descending, then by posting rank; keep the top kc
coarse_filter(sessions, query, C, kc) ==
    LET key == [s \in C |-> <<coarse_match(sessions[s].indexed, query), s>>]
    IN  Range(Top(SortBy(C, key), kc))

\* Tier 3 and the full scan: the enhanced matcher over a set of sessions, the
\* matching ones by match_score descending, ties broken by recency (newer
\* first); the top maxResults are returned
enhanced_search(sessions, query, among, maxResults) ==
    LET hits == {s \in among : match_score(sessions[s].content, query) > 0}
        key == [s \in hits |-> <<match_score(sessions[s].content, query), 0 - s>>]
    IN  Top(SortBy(hits, key), maxResults)

search_with_index(sessions, query, maxResults, kc) ==
    LET C == intersect_posting_lists(sessions, query)
    IN  enhanced_search(sessions, query, coarse_filter(sessions, query, C, kc), maxResults)

full_scan(sessions, query, maxResults) ==
    enhanced_search(sessions, query, DOMAIN sessions, maxResults)

\* temporal_search: the index first; the full scan when the index path
\* returns nothing
temporal_search ==
    /\ searchPath = "none"
    /\ \E sessions \in [SessionIds -> SessionStates], query \in Queries,
          maxResults \in MaxResultsChoices, kc \in KcChoices :
            LET indexed == search_with_index(sessions, query, maxResults, kc)
                scanned == full_scan(sessions, query, maxResults)
            IN  /\ searchIn' = [query |-> query, sessions |-> sessions,
                                maxResults |-> maxResults, kc |-> kc]
                /\ searchPath' = IF indexed = << >> THEN "fallback" ELSE "index"
                /\ searchOut' = [results |-> IF indexed = << >> THEN scanned ELSE indexed,
                                 fallback |-> scanned]
    /\ UNCHANGED nonSearchVars

\* The caller takes the answer; the next query can be run
SearchDone ==
    /\ searchPath # "none"
    /\ searchPath' = "none"
    /\ searchIn' = << >>
    /\ searchOut' = << >>
    /\ UNCHANGED nonSearchVars

SearchNext ==
    \/ temporal_search
    \/ SearchDone

SearchSpec == Init /\ [][SearchNext]_vars

----------------------------------------------------------------------------
(* Properties *)

ExpandOps == {"memory_expand", "rlm_expand"}
SessionReadOps == {"rlm_get", "rlm_expand"}
RefSearchOps == {"memory_search_refs", "rlm_search_refs", "rlm_search_refs_text"}

\* The per-ref cap an expand call applies
EffMaxChars == OrElse(inMaxChars, DefaultMaxChars)

\* The preview limit a refs search applies
EffPreviewChars ==
    IF op = "memory_search_refs" THEN OrElse(inPreview, DefaultPreviewChars)
    ELSE IF IsSome(inPreview) /\ inPreview[1] > 0 THEN inPreview[1]
    ELSE RlmDefaultPreviewChars

\* C1 (as claimed): every window in the results of an expand call has a text of
\* at most maxChars characters, truncated or not.
C1_WindowTextWithinMaxChars ==
    (op \in ExpandOps /\ outcome = "returned" /\ ~hookSet /\ EffMaxChars >= 0)
        => \A i \in DOMAIN resultsOut : Len(resultsOut[i].text) <= EffMaxChars

\* C1 (amended): every window an expand call computed itself, with a cap
\* maxChars >= 0, has a text of at most maxChars + length(marker) characters;
\* it has at most maxChars characters when it comes from rlm_expand or when the
\* text read was not longer than maxChars.
C1_WindowTextWithinMaxCharsPlusMarker ==
    (op \in ExpandOps /\ outcome = "returned" /\ ~disabled /\ ~hookSet
        /\ EffMaxChars >= 0)
        => /\ Len(rawTexts) = Len(resultsOut)
           /\ \A i \in DOMAIN resultsOut :
                /\ Len(resultsOut[i].text) <= EffMaxChars + Len(TruncationMarker)
                /\ (op = "rlm_expand" \/ Len(rawTexts[i]) <= EffMaxChars)
                       => Len(resultsOut[i].text) <= EffMaxChars

\* C1 witness: memory_expand returned a window it truncated; the window is
\* longer than maxChars
C1_TruncatedWindowReturned ==
    /\ op = "memory_expand" /\ outcome = "returned" /\ ~hookSet
    /\ EffMaxChars >= 0
    /\ \E i \in DOMAIN resultsOut :
          /\ Len(rawTexts[i]) > EffMaxChars
          /\ Len(resultsOut[i].text) > EffMaxChars

\* C2: when the text read for a ref is longer than maxChars, memory_expand
\* returns its first maxChars characters followed by one truncation marker
\* (length maxChars + length(marker), ending with the marker); otherwise it
\* returns the text unchanged. maxChars is a count (>= 0) and the windows are
\* the ones memory_expand computed (no post hook replaced them).
C2_TruncatedToMaxCharsThenMarker ==
    (op = "memory_expand" /\ outcome = "returned" /\ ~disabled /\ ~hookSet
        /\ EffMaxChars >= 0)
        => /\ Len(rawTexts) = Len(resultsOut)
           /\ \A i \in DOMAIN resultsOut :
                LET raw == rawTexts[i]
                    text == resultsOut[i].text
                IN  IF Len(raw) > EffMaxChars
                    THEN /\ text = SubSeq(raw, 1, EffMaxChars) \o TruncationMarker
                         /\ Len(text) = EffMaxChars + Len(TruncationMarker)
                         /\ EndsWith(text, TruncationMarker)
                    ELSE /\ text = raw
                         /\ ~EndsWith(text, TruncationMarker)

\* C2 witness: one memory_expand call returned a truncated window that keeps
\* at least one character of the file, and an untruncated one
C2_TruncatedAndWholeWindows ==
    /\ op = "memory_expand" /\ outcome = "returned" /\ ~hookSet
    /\ EffMaxChars >= 1
    /\ \E i, j \in DOMAIN resultsOut :
          /\ Len(rawTexts[i]) > EffMaxChars
          /\ EndsWith(resultsOut[i].text, TruncationMarker)
          /\ Len(rawTexts[j]) <= EffMaxChars
          /\ resultsOut[j].text = rawTexts[j]

\* C3: every ref returned by a refs search has a preview of at most
\* previewChars characters (shortened previews with their ellipsis, prefixed
\* previews and refs placed by a post hook included).
C3_PreviewWithinPreviewChars ==
    (op \in RefSearchOps /\ outcome = "returned")
        => \A i \in DOMAIN refsOut : Len(refsOut[i].preview) <= EffPreviewChars

\* C4: every ref returned by a refs search has 1 <= startLine <= endLine.
C4_RefLineRangeOrdered ==
    (op \in RefSearchOps /\ outcome = "returned")
        => \A i \in DOMAIN refsOut :
              /\ 1 <= refsOut[i].startLine
              /\ refsOut[i].startLine <= refsOut[i].endLine

\* The refs a batch expand call works on
RefsWorkedOn ==
    IF op = "memory_expand"
    THEN JsSlice(inRefs, 0, OrElse(inMaxRefs, DefaultMaxRefs))
    ELSE JsSlice(inRefs, 0,
                 clampInt(OrElse(inMaxRefs, RlmDefaultMaxRefs), 1, ExpandMaxRefsCap))

\* The ref can be read: its file exists
RefCanBeRead(ref) ==
    IF op = "memory_expand" THEN ref.path \in DOMAIN MemoryFiles
    ELSE /\ ref.path # << >>
         /\ resolveSessionFileAbs(ref.path).ok
         /\ resolveSessionFileAbs(ref.path).abs \in DOMAIN DiskFiles

\* C5: in a batch expand call where the manager is available (default
\* character cap, windows not replaced by a post hook), every ref of the batch
\* that can be read has a window in results, whether or not another ref of
\* the batch failed.
C5_ReadableRefsStillReturned ==
    (op \in ExpandOps /\ outcome = "returned" /\ ~unavailable /\ ~hookSet
        /\ inMaxChars = None)
        => \A i \in DOMAIN RefsWorkedOn :
              RefCanBeRead(RefsWorkedOn[i])
                  => \E j \in DOMAIN resultsOut :
                        resultsOut[j].path = RefsWorkedOn[i].path

\* C6: no call of a tool ends in an exception.
C6_NoExceptionEscapes == outcome # "threw"

\* C7: a result has disabled = true exactly when the capability was
\* unavailable or the operation failed, so an empty result without the flag
\* is a successful run that found nothing.
C7_DisabledIffUnavailableOrFailed ==
    (outcome = "returned")
        => /\ disabled <=> (unavailable \/ opFailed)
           /\ (resultsOut = << >> /\ refsOut = << >> /\ ~disabled)
                  => (~unavailable /\ ~opFailed /\ failures = {})

\* The path has the form sessions/<file>.jsonl, <file> without separator and
\* without ".."
HasSessionFileForm(p) ==
    /\ StartsWith(p, SessionsPrefix)
    /\ Len(p) > Len(SessionsPrefix)
    /\ EndsWith(SubSeq(p, Len(SessionsPrefix) + 1, Len(p)), JsonlExt)
    /\ \A k \in (Len(SessionsPrefix) + 1)..Len(p) : p[k] \notin {"/", "\\"}
    /\ \A k \in (Len(SessionsPrefix) + 1)..(Len(p) - 1) :
          ~(p[k] = "." /\ p[k + 1] = ".")

\* A get / expand call reads only files directly inside the sessions
\* directory, named by a path of the session form once Norm is applied, and
\* a get call on any other path fails without a read.
ReadsOnlySessionFiles(Norm(_)) ==
    (op \in SessionReadOps /\ outcome = "returned")
        => /\ \A e \in ioLog :
                \E i \in DOMAIN inRefs :
                    LET rel == Norm(inRefs[i].path)
                    IN  /\ HasSessionFileForm(rel)
                        /\ e = <<"read", Append(SessionsDir,
                                   SubSeq(rel, Len(SessionsPrefix) + 1, Len(rel)))>>
           /\ (op = "rlm_get")
                  => IF HasSessionFileForm(Norm(inRefs[1].path))
                     THEN ioLog # {}
                     ELSE ioLog = {} /\ disabled /\ resultsOut = << >>
           /\ \A j \in DOMAIN resultsOut :
                  HasSessionFileForm(Norm(resultsOut[j].path))

\* C8 (as claimed): rlm_get and rlm_expand read a file only for a path of
\* exactly the form sessions/<file>.jsonl; any other path fails without a read.
C8_ReadsOnlyExactSessionPaths == ReadsOnlySessionFiles(LAMBDA p : p)

\* C8 (amended): rlm_get and rlm_expand read a file only for a path that,
\* once its leading run of '.' and '/' characters is removed, has the form
\* sessions/<file>.jsonl with <file> free of '/', '\' and '..'; the file read
\* is <file>.jsonl directly inside the agent's sessions directory, and rlm_get
\* on any other path fails without reading a file.
C8_ReadsOnlyStrippedSessionPaths == ReadsOnlySessionFiles(StripLead)

\* C8 witness: rlm_get read a transcript for a path that starts with "../",
\* and the file read lies in the sessions directory
C8_LeadingDotsPathRead ==
    /\ op = "rlm_get" /\ outcome = "returned" /\ ~disabled
    /\ StartsWith(inRefs[1].path, <<".", ".", "/">>)
    /\ \E e \in ioLog : SubSeq(e[2], 1, Len(SessionsDir)) = SessionsDir

\* The characters of [A-Za-z0-9+/=] that occur in the modelled texts
Base64Chars ==
    {"A", "B", "a", "b", "c", "d", "e", "f", "g", "h", "j", "k", "q", "s", "x",
     "0", "1", "2", "+", "/", "="}

\* The preview triggers the binary-blob filter
TriggersBlobFilter(preview) ==
    \/ /\ Len(preview) >= 40
       /\ \A k \in DOMAIN preview : preview[k] \in Base64Chars
    \/ \E k \in DOMAIN preview : preview[k] = "REPL"

\* C9: no ref returned by memory_search_refs has a preview that triggers the
\* binary-blob filter.
C9_NoBlobPreviewReturned ==
    (op = "memory_search_refs" /\ outcome = "returned")
        => \A i \in DOMAIN refsOut : ~TriggersBlobFilter(refsOut[i].preview)

\* C10: an expand call with maxRefs = 0 returns empty results, reads no file
\* and obtains no manager.
C10_MaxRefsZeroDoesNothing ==
    (op \in ExpandOps /\ outcome = "returned" /\ inMaxRefs = Some(0))
        => resultsOut = << >> /\ ioLog = {}

FileReadOps == {"memory_expand", "rlm_expand", "rlm_get"}

\* C11: every window read from a file has 1 <= lines <= 400 and
\* 1 <= from <= fileLineCount, whatever the caller supplied.
C11_WindowReadWithinClamps ==
    (op \in FileReadOps /\ outcome = "returned")
        => \A i \in DOMAIN readLog :
              /\ 1 <= readLog[i].lines /\ readLog[i].lines <= MaxWindowLines
              /\ 1 <= readLog[i].from /\ readLog[i].from <= readLog[i].fileLines

HookedOps == {"memory_search_refs", "memory_expand"}

\* C12: when the post hook chain of memory_search_refs / memory_expand has
\* run, the call returns exactly the value a handler set as augmentedRefs /
\* augmentedExpanded, and exactly the refs / windows it computed itself when
\* no handler set one.
C12_HookValueReplacesOwnResult ==
    (op \in HookedOps /\ outcome = "returned" /\ ~disabled /\ ~hasError)
        => /\ hookSet <=> IsSome(hookValue)
           /\ op = "memory_search_refs"
                 => refsOut = (IF IsSome(hookValue) THEN hookValue[1] ELSE ownRefs)
           /\ op = "memory_expand"
                 => resultsOut = (IF IsSome(hookValue) THEN hookValue[1]
                                  ELSE ownWindows)

\* C12 witness: a handler set augmentedRefs to refs other than the ones
\* memory_search_refs computed, and the call returned the handler's refs
C12_HandlerRefsReturned ==
    /\ op = "memory_search_refs" /\ outcome = "returned" /\ ~disabled
    /\ IsSome(hookValue)
    /\ hookValue[1] # ownRefs
    /\ refsOut = hookValue[1]

\* HOOK_CONFIG of the skill's handler: the debounce and cooldown the hook is
\* documented with
debounceMs == 5000
cooldownMs == 30000

\* C13: debounce with D = 5 s: a burst of transcript-update events results in
\* one index update run, which starts D after the last event of the burst;
\* so every run starts exactly D after the latest event before it.
C13_RunStartsDebounceAfterLastEvent ==
    \A a \in DOMAIN lastStart :
        lastStart[a].at = lastStart[a].event + debounceMs

C15_EventLeavesRunScheduled ==
    \A a \in DOMAIN uncovered :
        uncovered[a] => (a \in DOMAIN pending /\ pending[a].active)

\* Updates scheduled and not yet run
PendingUpdates == {a \in DOMAIN pending : pending[a].active}

\* C18: at every instant at most Nq = 100 index updates are pending, for any
\* arrival pattern of transcript-update events.
C18_PendingWithinQueueSize == Cardinality(PendingUpdates) <= MAX_QUEUE_SIZE


\* The caller of the latest completed updateIndex
Returned == DOMAIN rets

\* C16: whatever the interleaving of updateIndex calls on one session, each
\* line of the transcript is in the index at most once and is reported as
\* added at most once; an updateIndex that finds the file as the index left it
\* returns messagesAdded = 0 and leaves tokens and lastIndexedLine as they were.
C16_EachLineIndexedAtMostOnce ==
    /\ \A idx \in committed \cup {IndexFile.idx} :
            \A k \in DOMAIN idx.times : idx.times[k] <= 1
    /\ totalAdded <= sessionLen
    /\ \A u \in Returned :
            rets[u].before.lastIndexedLine = rets[u].eof
                => /\ rets[u].messagesAdded = 0
                   /\ rets[u].after.tokens = rets[u].before.tokens
                   /\ rets[u].after.lastIndexedLine = rets[u].before.lastIndexedLine

\* C16 (witness): an updateIndex that waited for the lock of another call on
\* the same session found that call's index, with lines in it, and added nothing
C16_ConcurrentSecondCallAddsNothing ==
    \E v \in Returned :
        /\ rets[v].waited
        /\ rets[v].before.lastIndexedLine = MaxSessionLines
        /\ rets[v].eof = MaxSessionLines
        /\ rets[v].messagesAdded = 0

\* C17: at every instant the index file, and whatever a reader reads from it,
\* is a complete index: the one before an update (the first one, or one an
\* earlier update renamed into place) or the one after it, never a part of one.
C17_ReaderSeesCompleteIndex ==
    /\ IndexFile.complete
    /\ IndexFile.idx \in committed
    /\ observed.file.complete
    /\ observed.file.idx \in committed
    /\ \A i \in DOMAIN readerFd : fsInodes[readerFd[i]].complete

\* C17 (witness): a reader read an index with lines in it while an updater was
\* between writing its temp file and renaming it
C17_ReadDuringUpdate ==
    /\ observed.file.idx.lastIndexedLine >= 1
    /\ observed.midUpdate

\* C19: every child process the program has started was given a finite
\* timeout and a maximum stdout buffer in the options of the call, and the
\* call ended for its caller (with a result or with an error), it did not hang.
C19_ChildProcessBounded ==
    execSite # "none"
        => /\ IsSome(execOpts.timeout)
           /\ execOpts.timeout[1] > 0
           /\ IsSome(execOpts.maxBuffer)
           /\ execResult # "hung"

\* C20: when the three-tier pipeline answers from the index, each of its
\* results is a result of the full-scan fallback for the same query, and no
\* fallback result that it misses has a match_score strictly greater than that
\* of one of its results.
C20_ThreeTierWithinFallback ==
    searchPath = "index"
        => LET score(s) == match_score(searchIn.sessions[s].content, searchIn.query)
               three == Range(searchOut.results)
               scan == Range(searchOut.fallback)
           IN  /\ three \subseteq scan
               /\ \A m \in scan \ three : \A t \in three : score(m) <= score(t)

\* The parameters of the last memory_search_refs call without its recursive
\* argument: the non-recursive search on the same query
NonRecursiveParams == [query |-> Some("q"), previewChars |-> inPreview, recursive |-> None]

RECURSIVE TextChars(_, _)
TextChars(windows, n) ==
    IF n = 0 THEN 0 ELSE TextChars(windows, n - 1) + Len(windows[n].text)

\* xs is ys with some elements left out, the order kept
RECURSIVE IsSubsequence(_, _)
IsSubsequence(xs, ys) ==
    IF xs = << >> THEN TRUE
    ELSE IF ys = << >> THEN FALSE
    ELSE IF Head(xs) = Head(ys) THEN IsSubsequence(Tail(xs), Tail(ys))
    ELSE IsSubsequence(xs, Tail(ys))

\* C22: in an rlm_expand call with a budget maxChars >= 0 the refs are
\* consumed in input order, the returned texts sum to at most maxChars, a
\* text that exceeds what is left of the budget is cut to exactly what is
\* left, a text that does not is returned whole, and the window cut is the
\* last one read and returned.
C22_GlobalBudgetConsumedInOrder ==
    (op = "rlm_expand" /\ outcome = "returned" /\ EffMaxChars >= 0)
        => /\ Len(rawTexts) = Len(resultsOut)
           /\ Len(readLog) = Len(resultsOut)
           /\ TextChars(resultsOut, Len(resultsOut)) <= EffMaxChars
           /\ IsSubsequence([i \in DOMAIN resultsOut |-> resultsOut[i].path],
                            [i \in DOMAIN inRefs |-> inRefs[i].path])
           /\ \A i \in DOMAIN resultsOut :
                LET left == EffMaxChars - TextChars(resultsOut, i - 1)
                IN  IF Len(rawTexts[i]) > left
                    THEN /\ Len(resultsOut[i].text) = left
                         /\ resultsOut[i].text = SubSeq(rawTexts[i], 1, left)
                         /\ i = Len(resultsOut)
                    ELSE resultsOut[i].text = rawTexts[i]

\* C22 (witness): the first window was returned whole, the second was cut to
\* what was left of the budget, and a third ref was not expanded
C22_SecondWindowCutThirdSkipped ==
    /\ op = "rlm_expand"
    /\ outcome = "returned"
    /\ Len(resultsOut) = 2
    /\ Len(inRefs) > 2
    /\ resultsOut[1].text = rawTexts[1]
    /\ Len(resultsOut[1].text) > 0
    /\ Len(resultsOut[2].text) > 0
    /\ Len(resultsOut[2].text) < Len(rawTexts[2])

\* ---------------------------------------------------------------------------
\* The evaluation harness: scripts/test-memory-refs-report.ts
\* ---------------------------------------------------------------------------

\* Invocations of the harness in one behaviour
MaxInvocations == 2

\* gt.cases.length of the ground-truth file the harness is run with
NumCases == 2

\* const maxHops = 3 (the sweep's fixed hop count)
SweepMaxHops == 3

\* const expandTopKs = [1, 2, 3, 4]
expandTopKs == <<1, 2, 3, 4>>

\* const defaultLines = [10, 20, 40]
defaultLines == <<10, 20, 40>>

\* const maxTotalExpandedChars = [6000, 12000, 24000]
maxTotalExpandedChars == <<6000, 12000, 24000>>

\* grid cells in the order of the three nested for loops
NumCells == Len(expandTopKs) * Len(defaultLines) * Len(maxTotalExpandedChars)

cellAt(i) ==
    LET perK == Len(defaultLines) * Len(maxTotalExpandedChars)
        ki == ((i - 1) \div perK) + 1
        li == (((i - 1) % perK) \div Len(maxTotalExpandedChars)) + 1
        ci == ((i - 1) % Len(maxTotalExpandedChars)) + 1
    IN  [maxHops |-> SweepMaxHops, expandTopK |-> expandTopKs[ki],
         defaultLines |-> defaultLines[li],
         maxTotalExpandedChars |-> maxTotalExpandedChars[ci]]

\* const label = `sweep[maxHops=..,k=..,lines=..,totalChars=..]`
sweepLabel(cfg) ==
    <<"sweep", cfg.maxHops, cfg.expandTopK, cfg.defaultLines, cfg.maxTotalExpandedChars>>

\* --max-configs values given on the command line (0 and absent are both "no limit"
\* to `args.maxConfigs && ...`; the unlimited sweep is left out of the inputs)
MaxConfigsInputs == {3, 5}

\* parseArgs: the flags main reads; --out and --resume name the same path R.
\* bestFromOk says whether the --best-from file holds a sweep.best.cfg. Flags
\* main never looks at under the other flags are held at one value.
HarnessArgs ==
    {a \in [recursive : BOOLEAN, sweep : BOOLEAN, best : BOOLEAN, resume : BOOLEAN,
            maxConfigs : MaxConfigsInputs, bestFromOk : BOOLEAN] :
        /\ a.sweep => ~a.recursive
        /\ ~a.sweep => a.maxConfigs = 3
        /\ ~a.best => a.bestFromOk}

\* the first command line of the resume scenario: --out R --sweep --max-configs 3
SweepThreeArgs ==
    [recursive |-> FALSE, sweep |-> TRUE, best |-> FALSE, resume |-> FALSE,
     maxConfigs |-> 3, bestFromOk |-> TRUE]

\* report.suites.some((s) => s.label === label)
hasLabel(report, label) ==
    \E i \in 1..Len(report.suites) : report.suites[i].label = label

\* What the tools measured for a suite: the cases that passed are the run's to
\* decide; token and latency aggregates of a sweep cell grow with its budget
\* and its fan-out.
recTokensMeanOf(cfg) == cfg.maxTotalExpandedChars \div 6000

recLatencyP95Of(cfg) == cfg.expandTopK

\* runSuite(label, recursiveCfg): the for loop over gt.cases has no try/catch,
\* so either every case is measured and the suite object is returned with one
\* entry per case, or a tool call of some case throws and runSuite rejects.
runSuite(label, recursiveCfg) ==
    {[threw |-> TRUE, suite |-> << >>]} \cup
    {[threw |-> FALSE,
      suite |-> <<[label |-> label,
                   cases |-> NumCases,
                   passed |-> passed,
                   hasRec |-> recursiveCfg # << >>,
                   recTokensMean |-> IF recursiveCfg = << >> THEN 0
                                     ELSE recTokensMeanOf(recursiveCfg[1]),
                   recLatencyP95 |-> IF recursiveCfg = << >> THEN 0
                                     ELSE recLatencyP95Of(recursiveCfg[1])]>>] :
        passed \in {NumCases - 1, NumCases}}

\* main().catch((err) => { console.error(...); process.exitCode = 1; })
mainRejects(threwIn) ==
    /\ proc' = [proc EXCEPT !.pc = "failed", !.ckpt = "none"]
    /\ runLog' = [runLog EXCEPT !.caseThrew = threwIn]
    /\ UNCHANGED outFile

\* report.suites.push(await runSuite(label, cfg)); await checkpoint();
\* then main goes on at `next`
pushSuite(label, cfg, next, counted) ==
    \E r \in runSuite(label, cfg) :
        IF r.threw
        THEN mainRejects(<<label>>)
        ELSE /\ proc' = [proc EXCEPT
                    !.report.suites = Append(@, r.suite[1]),
                    !.candidates = IF counted THEN Append(@, r.suite[1]) ELSE @,
                    !.configsRun = IF counted THEN @ + 1 ELSE @,
                    !.ckpt = "due",
                    !.pc = next]
             /\ UNCHANGED <<outFile, runLog>>

Running == proc.pc \in {"default", "recursive", "best", "sweep", "select", "final"}

\* main, up to the first suite: parse the flags, load or create the report
StartHarness(args) ==
    /\ ~Running
    /\ runLog.runs < MaxInvocations
    /\ runLog' = [runs |-> runLog.runs + 1,
                  prev |-> IF runLog.runs = 0 THEN "none"
                           ELSE IF proc.args[1] = SweepThreeArgs /\ proc.pc = "stopped"
                                THEN "sweep 3, interrupted"
                                ELSE "other",
                  loaded |-> IF args.resume /\ outFile.exists /\ outFile.complete
                             THEN Len(outFile.report.suites) ELSE 0,
                  caseThrew |-> << >>]
    /\ proc' = IF args.resume /\ ~(outFile.exists /\ outFile.complete)
               THEN \* fs.readFile or JSON.parse throws
                    [NoProcess EXCEPT !.pc = "failed", !.args = <<args>>]
               ELSE [NoProcess EXCEPT
                        !.pc = "default",
                        !.args = <<args>>,
                        !.report = IF args.resume THEN outFile.report ELSE NewReport]
    /\ UNCHANGED outFile

\* if (!report.suites.some((s) => s.label === "default")) { push; checkpoint }
DefaultSuite ==
    /\ proc.pc = "default" /\ proc.ckpt = "none"
    /\ IF hasLabel(proc.report, <<"default">>)
       THEN /\ proc' = [proc EXCEPT !.pc = "recursive"]
            /\ UNCHANGED <<outFile, runLog>>
       ELSE pushSuite(<<"default">>, << >>, "recursive", FALSE)

\* if (args.recursive && !args.sweep) { if (!some(label === "recursive")) ... }
\* (the fixed config of that suite is maxHops 3, k 2, lines 20, totalChars 12000)
RecursiveSuite ==
    /\ proc.pc = "recursive" /\ proc.ckpt = "none"
    /\ IF proc.args[1].recursive /\ ~proc.args[1].sweep
          /\ ~hasLabel(proc.report, <<"recursive">>)
       THEN pushSuite(<<"recursive">>, <<cellAt(14)>>, "best", FALSE)
       ELSE /\ proc' = [proc EXCEPT !.pc = "best"]
            /\ UNCHANGED <<outFile, runLog>>

\* if (args.best) { read bestFrom; throw without sweep.best.cfg;
\*                  report.suites.push(await runSuite("recursive(best)", best)) }
BestSuite ==
    /\ proc.pc = "best" /\ proc.ckpt = "none"
    /\ IF ~proc.args[1].best
       THEN /\ proc' = [proc EXCEPT !.pc = "sweep"]
            /\ UNCHANGED <<outFile, runLog>>
       ELSE IF ~proc.args[1].bestFromOk
            THEN mainRejects(<< >>)
            ELSE pushSuite(<<"recursive(best)">>, <<cellAt(1)>>, "sweep", FALSE)

\* if (args.maxConfigs && configsRun >= args.maxConfigs) break  (all three loops)
sweepStops(configsRun, args) == configsRun >= args.maxConfigs

\* one iteration of the innermost sweep loop
SweepStep ==
    /\ proc.pc = "sweep" /\ proc.ckpt = "none"
    /\ IF ~proc.args[1].sweep
       THEN /\ proc' = [proc EXCEPT !.pc = "final", !.ckpt = "due"]
            /\ UNCHANGED <<outFile, runLog>>
       ELSE IF proc.cell > NumCells \/ sweepStops(proc.configsRun, proc.args[1])
            THEN /\ proc' = [proc EXCEPT !.pc = "select"]
                 /\ UNCHANGED <<outFile, runLog>>
            ELSE IF hasLabel(proc.report, sweepLabel(cellAt(proc.cell)))
                 THEN \* continue
                      /\ proc' = [proc EXCEPT !.cell = @ + 1]
                      /\ UNCHANGED <<outFile, runLog>>
                 ELSE pushSuite(sweepLabel(cellAt(proc.cell)), <<cellAt(proc.cell)>>,
                                "sweep", TRUE)

\* the sort comparator of bestCandidates: mean recursiveRefs tokens, then p95 latency
betterCandidate(a, b) ==
    \/ a.recTokensMean < b.recTokensMean
    \/ a.recTokensMean = b.recTokensMean /\ a.recLatencyP95 < b.recLatencyP95

\* withRec, bestPass, bestCandidates and bestCandidates[0] ?? null over `cands`
\* (Array.prototype.sort is stable: among equals the earlier candidate stays first)
selectBest(cands) ==
    LET withRec == {i \in 1..Len(cands) : cands[i].hasRec}
        bestCandidates == {i \in withRec :
                              \A j \in withRec : cands[j].passed <= cands[i].passed}
    IN  IF bestCandidates = {} THEN << >>
        ELSE <<cands[CHOOSE i \in bestCandidates :
                        \A j \in bestCandidates \ {i} :
                            \/ betterCandidate(cands[i], cands[j])
                            \/ ~betterCandidate(cands[j], cands[i]) /\ i < j]>>

\* the candidates the selection is made over: const candidates = [] filled by
\* the sweep loop of this invocation
sweepCandidates(p) == p.candidates

\* report.sweep = { grid, objective, best: bestCandidates[0] ?? null }
SelectBest ==
    /\ proc.pc = "select" /\ proc.ckpt = "none"
    /\ proc' = [proc EXCEPT !.report.best = selectBest(sweepCandidates(proc)),
                            !.pc = "final", !.ckpt = "due"]
    /\ UNCHANGED <<outFile, runLog>>

\* what fs.writeFile(outPath, data) leaves at the path while it runs: the file
\* is opened with O_TRUNC and the data written behind it
writeFileBegins(file) == [file EXCEPT !.exists = TRUE, !.complete = FALSE]

\* checkpoint(), first half: await fs.writeFile(outPath, JSON.stringify(report, null, 2))
CheckpointBegins ==
    /\ Running /\ proc.ckpt = "due"
    /\ outFile' = writeFileBegins(outFile)
    /\ proc' = [proc EXCEPT !.ckpt = "writing"]
    /\ UNCHANGED runLog

\* checkpoint(), second half: every byte of the report is in the file
CheckpointEnds ==
    /\ Running /\ proc.ckpt = "writing"
    /\ outFile' = [exists |-> TRUE, complete |-> TRUE, report |-> proc.report]
    /\ proc' = [proc EXCEPT !.ckpt = "none"]
    /\ UNCHANGED runLog

\* main returns after the final checkpoint
Finish ==
    /\ proc.pc = "final" /\ proc.ckpt = "none"
    /\ proc' = [proc EXCEPT !.pc = "done"]
    /\ UNCHANGED <<outFile, runLog>>

\* the process is killed (SIGINT, SIGKILL, power loss) wherever it is
Interrupt ==
    /\ Running
    /\ proc' = [proc EXCEPT !.pc = "stopped"]
    /\ UNCHANGED <<outFile, runLog>>

HarnessNext ==
    \/ \E args \in HarnessArgs : StartHarness(args) /\ UNCHANGED nonHarnessVars
    \/ DefaultSuite /\ UNCHANGED nonHarnessVars
    \/ RecursiveSuite /\ UNCHANGED nonHarnessVars
    \/ BestSuite /\ UNCHANGED nonHarnessVars
    \/ SweepStep /\ UNCHANGED nonHarnessVars
    \/ SelectBest /\ UNCHANGED nonHarnessVars
    \/ CheckpointBegins /\ UNCHANGED nonHarnessVars
    \/ CheckpointEnds /\ UNCHANGED nonHarnessVars
    \/ Finish /\ UNCHANGED nonHarnessVars
    \/ Interrupt /\ UNCHANGED nonHarnessVars

HarnessSpec == Init /\ [][HarnessNext]_vars

\* the second command line of the resume scenario: --resume R --sweep --max-configs 5
ResumeSweepFiveArgs ==
    [recursive |-> FALSE, sweep |-> TRUE, best |-> FALSE, resume |-> TRUE,
     maxConfigs |-> 5, bestFromOk |-> TRUE]

\* labels of a report's suites, in order
suiteLabels(report) == [i \in 1..Len(report.suites) |-> report.suites[i].label]

\* suites this invocation appended to the report it started from
appendedSuites == Len(proc.report.suites) - runLog.loaded

\* the resume scenario has run to its end: the first run was interrupted with
\* two completed suites in R, the second run loaded them and returned
ResumeScenarioDone ==
    /\ runLog.prev = "sweep 3, interrupted"
    /\ proc.args = <<ResumeSweepFiveArgs>>
    /\ runLog.loaded = 2
    /\ proc.pc = "done"

\* C23: a run `--out R --sweep --max-configs 3` aborted after two completed
\* suites and re-run as `--resume R --sweep --max-configs 5` reads the two
\* suites from R, appends exactly three more and leaves exactly five in R.
C23_ResumeAppendsExactlyThree ==
    ResumeScenarioDone =>
        /\ appendedSuites = 3
        /\ outFile.complete
        /\ Len(outFile.report.suites) = 5

\* C24: the report is rewritten atomically after each suite: whenever the
\* harness is interrupted the output path holds the previous or the new
\* complete report, never a truncated one, so a later --resume parses it.
C24_InterruptedReportIsComplete ==
    /\ (proc.pc = "stopped" /\ outFile.exists) => outFile.complete
    /\ (proc.pc = "failed" /\ proc.args[1].resume /\ outFile.exists) => outFile.complete

\* the suites of a report that belong to grid cells of the sweep
sweepSuitesOf(report) ==
    {report.suites[i] : i \in {j \in 1..Len(report.suites) : report.suites[j].label[1] = "sweep"}}

\* C25: sweep.best is the grid cell with the highest pass rate among all cells
\* that have a suite in the report, whether run by this invocation or loaded
\* by --resume; ties go to the lowest mean recursiveRefs tokens, then to the
\* lowest p95 latency.
C25_BestAmongAllCellsInReport ==
    (proc.pc = "done" /\ proc.args[1].sweep /\ sweepSuitesOf(proc.report) # {}) =>
        /\ proc.report.best # << >>
        /\ proc.report.best[1] \in sweepSuitesOf(proc.report)
        /\ \A c \in sweepSuitesOf(proc.report) :
              /\ c.passed <= proc.report.best[1].passed
              /\ c.passed = proc.report.best[1].passed =>
                    ~betterCandidate(c, proc.report.best[1])

\* C26: an exception raised while one case is processed is a failure of that
\* case, not of the suite: the suite completes with one entry per case, is
\* appended to the report and checkpointed, and main goes on.
C26_CaseExceptionKeepsSuite ==
    runLog.caseThrew # << >> =>
        /\ proc.pc # "failed"
        /\ \E i \in 1..Len(proc.report.suites) :
              /\ proc.report.suites[i].label = runLog.caseThrew[1]
              /\ proc.report.suites[i].cases = NumCases

\* no two suites of a report carry the same label
distinctLabels(report) ==
    \A i, j \in 1..Len(report.suites) :
        report.suites[i].label = report.suites[j].label => i = j

\* C30: in every report the harness holds or has written, across any sequence
\* of runs and resumes with any combination of --recursive, --best and
\* --sweep, the suite labels are pairwise distinct.
C30_SuiteLabelsDistinct ==
    /\ distinctLabels(proc.report)
    /\ (outFile.exists /\ outFile.complete) => distinctLabels(outFile.report)

\* C27: for each agent at most one index-refresh child process started by the
\* hook is running at any time, also when transcript-update events arrive
\* while a refresh is in progress.
C27_OneRefreshPerAgent ==
    \A r1, r2 \in runs : r1.agent = r2.agent => r1 = r2

\* C27 witness: while a refresh of an agent is running, an event for that
\* agent has arrived and has set a timer for the next refresh
C27_EventDuringRefresh ==
    \E r \in runs :
        /\ r.agent \in DOMAIN pending
        /\ pending[r.agent].active
        /\ lastEventAt[r.agent] > r.start

\* C28: a failed refresh starts no cooldown: lastRun of the agent is updated
\* only when a refresh succeeds, so an event that arrives after a failure
\* leaves a refresh scheduled unless the cooldown of an earlier successful
\* run covered the event.
C28_FailureStartsNoCooldown ==
    \A a \in DOMAIN lastEnd :
        ~lastEnd[a].ok =>
            /\ MapGet(lastRun, a, 0) < lastEnd[a].at
            /\ (/\ uncovered[a]
                /\ lastEventAt[a] >= lastEnd[a].at
                /\ ~InCooldown(lastEventAt[a], MapGet(lastRun, a, 0)))
               => (a \in DOMAIN pending /\ pending[a].active)

\* C28 witness: after a refresh of an agent failed, an event for the agent
\* arrived within what would have been the cooldown of that attempt, and a
\* refresh is scheduled for it
C28_RescheduledAfterFailure ==
    \E a \in DOMAIN lastEnd :
        /\ ~lastEnd[a].ok
        /\ uncovered[a]
        /\ lastEventAt[a] > lastEnd[a].at
        /\ InCooldown(lastEventAt[a], lastEnd[a].at)
        /\ pending[a].active
        /\ pending[a].due = TimerDue(lastEventAt[a])

----------------------------------------------------------------------------
(* Transcript-update events: sessions/transcript-events.ts *)

\* Listener functions a caller may register
Listeners == {"l1", "l2", "l3"}

\* Values emitSessionTranscriptUpdate is called with
SessionFileInputs ==
    { << >>, <<" ", "\n">>, <<"s", ".", "j">>, <<" ", "s", ".", "j", "\n">> }

\* Set.prototype.add: a value already in the set keeps its place
setAdd(set, v) ==
    IF \E i \in 1..Len(set) : set[i] = v THEN set ELSE Append(set, v)

\* Set.prototype.delete
setDelete(set, v) == SelectSeq(set, LAMBDA x : x # v)

\* onSessionTranscriptUpdate(listener)
onSessionTranscriptUpdate(listener) ==
    /\ listeners' = setAdd(listeners, listener)
    /\ UNCHANGED emitLog

\* the function onSessionTranscriptUpdate returned is called
Unsubscribe(listener) ==
    /\ \E i \in 1..Len(listeners) : listeners[i] = listener
    /\ listeners' = setDelete(listeners, listener)
    /\ UNCHANGED emitLog

\* for (const listener of SESSION_TRANSCRIPT_LISTENERS) { listener(update); }
\* with the listeners of `throwing` raising an exception when called: the calls
\* made, and whether the loop was left by an exception
RECURSIVE notifyListeners(_, _, _, _)
notifyListeners(set, update, throwing, calls) ==
    IF set = << >> THEN [calls |-> calls, threw |-> FALSE]
    ELSE IF Head(set) \in throwing
         THEN [calls |-> Append(calls, <<Head(set), update>>), threw |-> TRUE]
         ELSE notifyListeners(Tail(set), update, throwing,
                              Append(calls, <<Head(set), update>>))

\* createInternalHookEvent("session", "transcript:update", "", {sessionFile: trimmed})
transcriptHookEvent(trimmed) ==
    [type |-> "session", action |-> "transcript:update", sessionKey |-> "",
     sessionFile |-> trimmed]

\* emitSessionTranscriptUpdate(sessionFile)
emitSessionTranscriptUpdate(sessionFile, throwing) ==
    LET trimmed == Trim(sessionFile)
        notified == notifyListeners(listeners, [sessionFile |-> trimmed], throwing, << >>)
    IN  /\ emitLog' =
              IF trimmed = << >>
              THEN [called |-> TRUE, sessionFile |-> sessionFile,
                    registered |-> listeners, invoked |-> << >>,
                    hookEvents |-> << >>, threw |-> FALSE]
              ELSE [called |-> TRUE, sessionFile |-> sessionFile,
                    registered |-> listeners, invoked |-> notified.calls,
                    hookEvents |-> IF notified.threw THEN << >>
                                   ELSE <<transcriptHookEvent(trimmed)>>,
                    threw |-> notified.threw]
        /\ UNCHANGED listeners

EmitNext ==
    \/ \E l \in Listeners : onSessionTranscriptUpdate(l) /\ UNCHANGED nonEmitVars
    \/ \E l \in Listeners : Unsubscribe(l) /\ UNCHANGED nonEmitVars
    \/ \E f \in SessionFileInputs, throwing \in SUBSET Listeners :
          emitSessionTranscriptUpdate(f, throwing) /\ UNCHANGED nonEmitVars

EmitSpec == Init /\ [][EmitNext]_vars

\* C29: a call of emitSessionTranscriptUpdate with a path that is non-empty
\* after trimming invokes each listener registered at the call exactly once,
\* with the trimmed path, and then dispatches exactly one session /
\* transcript:update hook event, however the listeners behave; a path that is
\* empty after trimming invokes no listener and dispatches no hook event.
C29_EveryListenerThenOneHookEvent ==
    emitLog.called =>
        IF Trim(emitLog.sessionFile) # << >>
        THEN /\ emitLog.invoked =
                   [i \in 1..Len(emitLog.registered) |->
                       <<emitLog.registered[i], [sessionFile |-> Trim(emitLog.sessionFile)]>>]
             /\ emitLog.hookEvents = <<transcriptHookEvent(Trim(emitLog.sessionFile))>>
        ELSE /\ emitLog.invoked = << >>
             /\ emitLog.hookEvents = << >>

====
